---- MODULE Spec2Model ----
(***************************************************************************)
(* Model of the cooperative task scheduler (src/src/scheduler.ts): the     *)
(* Notifier wake-up primitive, the six (lane, priority) queues, and the    *)
(* asynchronous run loop of Scheduler.start / Scheduler.tick.              *)
(*                                                                         *)
(* JavaScript runs one continuation at a time, so every action below is    *)
(* the code between two suspension points (an `await`), executed           *)
(* atomically.  A call of start() creates one activation of the run loop;  *)
(* `loops` holds the position of every activation.                         *)
(*                                                                         *)
(* The second part models the planning loop of the BuilderAgent            *)
(* (src/src/actors/builder-agent.ts) with its two injected collaborators,  *)
(* the model call llmOnce and the effect sink submitEffect, as its         *)
(* environment.                                                            *)
(***************************************************************************)
EXTENDS Integers, Sequences, FiniteSets, TLC

(* ---- bounds of the model ---- *)
MaxTasks == 3      \* number of enqueue() calls explored
MaxLoops == 2      \* number of start() calls that enter the run loop
MaxSignals == 2    \* the history counter `signals` saturates here

(* ---- program constants ---- *)
LANES == <<"domain", "ui">>
PRIOS == <<"high", "medium", "low">>
Lane == {LANES[i] : i \in 1..Len(LANES)}
Prio == {PRIOS[i] : i \in 1..Len(PRIOS)}

\* How a call of task.run() ends: it returns or its promise resolves, its
\* promise rejects, or it throws before its first await.
Run == {"ok", "reject", "throw"}

LoopId == 1..MaxLoops
TaskId == 1..MaxTasks
NoTask == 0
NoCell == [lane |-> "null", priority |-> "null"]

VARIABLES
  status,      \* Scheduler.state.status
  queue,       \* Scheduler.queue : [Lane -> [Prio -> Seq(task id)]]
  notifier,    \* Notifier : [waitQueue, hasPendingSignal]
  loops,       \* activations of start(): [LoopId -> [pc, worked, task, run]]
  jobs,        \* the engine's promise job queue: the activations whose awaited
               \* promise has settled, in the order their continuations run
  ran,         \* [task id -> number of calls of its run()]
  enqueued,    \* number of enqueue() calls so far (task ids are 1..enqueued)
  startResult, \* the most recent start() call: "ok", or "threw" (its promise
               \* rejected with "cannot restart"); "none" before the first
  signals,     \* history: signal() calls that found no waiter since the last
               \* wait(), counted up to MaxSignals
  waited       \* history: how the wait() calls since the last signal() went

schedulerVars ==
  <<status, queue, notifier, loops, jobs, ran, enqueued, startResult,
    signals, waited>>

VARIABLES
  interrupted,  \* BuilderAgent.interrupted
  steps,        \* BuilderAgent.steps
  currentReqId, \* BuilderAgent.currentReqId
  convo,        \* BuilderAgent.convo, the transcript
  strands,      \* calls of loop() suspended at a model call:
                \* [StrandId -> [pc, i, calls, prompt]]
  effects,      \* ToolCall effects handed to submitEffect and not yet
                \* answered by a ToolResult event
  started,      \* history: [request id -> number of planning-start events]
  stops,        \* history: [request id -> reasons of its planning-stop events]
  emitted,      \* the UI events passed to onUpdate by the latest step
  submitted,    \* the effects passed to submitEffect by the latest step
  turnCalls,    \* history: model calls made since the latest UserInput
  halted,       \* history: the request ids of the turns that were planning
                \* when an LlmError event arrived
  lastReply,    \* history: how the model call settled that the latest step
                \* continued from, "none" when the step was not one
  turns,        \* number of UserInput events so far
  others,       \* number of unusual events so far: a reply of the model
                \* port other than its usual one, an LlmError event, a call
                \* of interrupt(), a UserInput after the first
  port          \* the usual reply of the model port

agentVars ==
  <<interrupted, steps, currentReqId, convo, strands, effects, started,
    stops, emitted, submitted, turnCalls, halted, lastReply, turns, others,
    port>>

VARIABLES
  actors,       \* Router.actors : the Map from actor id to actor instance
  registered,   \* history: the instances passed to register(), in order
  handled,      \* history: [instance -> the events its on() was called with]
  dispatchLog   \* history: the dispatch() calls, [evt, outcome] each

routerVars == <<actors, registered, handled, dispatchLog>>

VARIABLES
  registry,     \* ToolsAdapter.registry : the names of the registered ports
  effs,         \* history: the effects passed to submit(), in order
  taskEff,      \* [task id -> the effect that its run() closes over], NoEff
                \* for a task that the adapter did not enqueue
  portOut,      \* history: [effect -> what its tool.run(args) resolved with]
  toolResults   \* history: the events the adapter passed to dispatch, in
                \* order, each with the effect it answers

toolsVars == <<registry, effs, taskEff, portOut, toolResults>>

VARIABLES
  portText,     \* the chunks that LlmPort.generate(prompt) yields when it
                \* does not fail
  calls,        \* [call -> the state of that call of run() or runOnce()]:
                \* its mode and target, the chunks consumed (pos), buf and
                \* tokenCount, the events it passed to dispatch, in order
                \* (history), and how the promise of runOnce settled
  taskCall      \* [task id -> the call that its run() closes over], NoCall
                \* for a task that the LlmAdapter did not enqueue

llmVars == <<portText, calls, taskCall>>

VARIABLES
  fsArgs,       \* the args that FsPort.run is called with
  disk,         \* the file system: the directories and the files on it
  fsOut         \* what run(args) resolved with, and (history) the calls of
                \* node:fs that took effect: a file read, written or
                \* appended to, a directory created

fsVars == <<fsArgs, disk, fsOut>>

VARIABLES
  rtStatus      \* Runtime.status

runtimeVars == <<rtStatus>>

vars ==
  <<schedulerVars, agentVars, routerVars, toolsVars, llmVars, fsVars,
    runtimeVars>>

\* What the scheduler, the agent, the router and the adapter do not touch.
notScheduler ==
  <<agentVars, routerVars, toolsVars, llmVars, fsVars, runtimeVars>>
notAgent ==
  <<schedulerVars, routerVars, toolsVars, llmVars, fsVars, runtimeVars>>
notRouter ==
  <<schedulerVars, agentVars, toolsVars, llmVars, fsVars, runtimeVars>>
notTools == <<agentVars, routerVars, llmVars, fsVars, runtimeVars>>
notLlm == <<agentVars, routerVars, toolsVars, fsVars, runtimeVars>>
notFs ==
  <<schedulerVars, agentVars, routerVars, toolsVars, llmVars, runtimeVars>>
notRuntime == <<agentVars, routerVars, toolsVars, llmVars, fsVars>>

Range(seq) == {seq[k] : k \in 1..Len(seq)}

(* ---- BuilderAgent: constants and construction ---- *)

MAX_STEPS == 12
MAX_REPAIRS == 2

MaxTurns == 2      \* number of UserInput events explored
MaxOther == 2      \* number of unusual events explored in one behaviour
MaxStrands == 2    \* calls of loop() that may be suspended at the same time

StrandId == 1..MaxStrands

\* Request ids: `null`, the empty string (a string that is falsy), and the
\* id carried by the k-th UserInput (`user-${Date.now()}` from the command
\* line, `turn-${Date.now()}` when the event has none).
NullReq == -1
EmptyReq == 0
ReqId == 1..MaxTurns

\* PlannerMsg types; the raw texts a model call resolves with; and how the
\* promise of llmOnce settles ("fail": it rejects). A raw text is named by
\* its message type when it is a well-formed turn of that type; the others
\* are "invalid" (text that is not JSON), "v2" (a step turn that carries
\* schema_version 2), "step0" (a step turn whose step is 0) and "note" (a
\* turn whose message has a type that PlannerMsg does not know).
MsgType == {"step", "action", "deliverable", "final"}
Raw == MsgType \cup {"invalid", "v2", "step0", "note"}
Reply == Raw \cup {"fail"}

\* The model ports explored, by their usual reply.
Port == {"step", "invalid"}

Entry(role, content) == [role |-> role, content |-> content]

\* An AgentUiEvent: its kind, its requestId (NullReq when it has none) and
\* its distinguishing field.
UI(kind, req, arg) == [kind |-> kind, req |-> req, arg |-> arg]

\* The id the agent is constructed with and registered under.
Self == "agent#1"

\* The ToolCall effect of an action message; its tool and args are those of
\* the message.
ToolCall(target) == [kind |-> "ToolCall", target |-> target]

FreeStrand == [pc |-> "free", i |-> 0, calls |-> 0, prompt |-> <<>>]

\* new BuilderAgent(id, submitEffect, llmOnce, onUpdate)
AgentNew ==
  /\ interrupted = FALSE
  /\ steps = 0
  /\ currentReqId = NullReq
  /\ convo = <<Entry("system", "SYSTEM")>>
  /\ strands = [s \in StrandId |-> FreeStrand]
  /\ effects = 0
  /\ started = [r \in ReqId |-> 0]
  /\ stops = [r \in ReqId |-> <<>>]
  /\ emitted = <<>>
  /\ submitted = <<>>
  /\ turnCalls = 0
  /\ halted = {}
  /\ lastReply = "none"
  /\ turns = 0
  /\ others = 0

(* ---- Router: constants and construction ---- *)

MaxActors == 4     \* actor instances that exist
MaxRegs == 3       \* register() calls explored
MaxDispatch == 2   \* dispatch() calls explored

\* Actor instances, and the id field of each: two ids, each carried by
\* more than one instance.
Inst == 1..MaxActors
NoActor == 0
IdOf(k) == IF k % 2 = 1 THEN "agent#1" ELSE "agent#2"
ActorIds == {IdOf(k) : k \in Inst}

\* Events dispatched: one without a target field, and events whose target
\* is an actor id or an id that no actor carries.
TargetId == ActorIds \cup {"nobody"}
RouterEvent ==
  {[type |-> "START"]}
    \cup {[type |-> ty, target |-> t] : ty \in {"UserInput", "ToolResult"},
                                        t \in TargetId}

\* new Router()
RouterNew ==
  /\ actors = <<>>
  /\ registered = <<>>
  /\ handled = [k \in Inst |-> <<>>]
  /\ dispatchLog = <<>>

(* ---- ToolsAdapter: constants and construction ---- *)

MaxEffects == 2    \* submit() calls explored

EffId == 1..MaxEffects
NoEff == 0

\* The ports that exist (FsPort, HttpPort), and the tool names an effect
\* may carry: those and one that no port has.
ToolName == {"fs", "http"}
EffTool == ToolName \cup {"shell"}

\* The effects submitted.
Effect ==
  {[kind |-> "LlmGenerate", target |-> t] : t \in ActorIds}
    \cup {[kind |-> "ToolCall", tool |-> n, target |-> t] :
             n \in EffTool, t \in ActorIds}

\* What a port's run() resolves with; FsPort and HttpPort catch every
\* error and resolve with ok false, so the promise never rejects.
PortResult ==
  {[ok |-> TRUE, data |-> "content"], [ok |-> FALSE, data |-> "ENOENT"]}

\* new ToolsAdapter(scheduler, dispatch)
ToolsNew ==
  /\ registry = {}
  /\ effs = <<>>
  /\ taskEff = [t \in TaskId |-> NoEff]
  /\ portOut = <<>>
  /\ toolResults = <<>>

(* ---- LlmAdapter: constants and construction ---- *)

MaxCalls == 2      \* calls of run() and runOnce() explored
MaxChunks == 2     \* chunks the port yields for a prompt

CallId == 1..MaxCalls
NoCall == 0

\* Texts are sequences of characters; the chunks a port may yield.
Chunk == {<<>>, <<"a">>, <<" ", "b">>}
ChunkSeq == UNION {[1..n -> Chunk] : n \in 0..MaxChunks}

\* The target of a call: the one actor the runtime registers.
LlmTarget == {Self}

NoCallState ==
  [mode |-> "none", target |-> "", pos |-> 0, buf |-> <<>>, tokenCount |-> 0,
   events |-> <<>>, outcome |-> "none"]

\* new LlmAdapter(llm, scheduler, dispatch), with the port's output for the
\* prompt given.
LlmNew(text) ==
  /\ portText = text
  /\ calls = [c \in CallId |-> NoCallState]
  /\ taskCall = [t \in TaskId |-> NoCall]

(* ---- FsPort ---- *)

\* The longest path argument, in segments.
MaxSegs == 3

\* Names of directory entries; "we" is a name that begins with the name of
\* the root directory.
Name == {"w", "we", "x"}

\* The segments of a path argument.
Seg == Name \cup {".."}

FsPath == UNION {[1..n -> Seg] : n \in 0..MaxSegs}

\* this.root, the directory "/w" (process.cwd() in the runtime).
root == <<"w">>

Op == {"read", "write", "append", "stat"}

\* args with and without a path.
FsArgs == [op : Op, path : FsPath] \cup [op : Op]

\* join(...): the segments of its arguments, one after the other.
join(a, b) == a \o b

RECURSIVE resolveFrom(_, _)
resolveFrom(at, rest) ==
  IF rest = <<>> THEN at
  ELSE resolveFrom(
         IF Head(rest) = ".."
           THEN IF at = <<>> THEN <<>> ELSE SubSeq(at, 1, Len(at) - 1)
           ELSE Append(at, Head(rest)),
         Tail(rest))

\* resolve(p): the absolute location, ".." taken away with the segment
\* before it ("/.." is "/").
resolve(p) == resolveFrom(<<>>, p)

\* The characters of a name.
Chars(name) ==
  CASE name = "w" -> <<"w">>
    [] name = "we" -> <<"w", "e">>
    [] name = "x" -> <<"x">>

RECURSIVE Below(_)
Below(loc) ==
  IF loc = <<>> THEN <<>>
  ELSE <<"/">> \o Chars(Head(loc)) \o Below(Tail(loc))

\* The string that resolve() returns for a location: "/w/x".
Text(loc) == IF loc = <<>> THEN <<"/">> ELSE Below(loc)

\* String.prototype.startsWith
startsWith(str, prefix) ==
  /\ Len(prefix) <= Len(str)
  /\ SubSeq(str, 1, Len(prefix)) = prefix

\* safe(p): the resolved location, or throws.
safe(p) ==
  LET full == resolve(join(root, p))
  IN  IF ~startsWith(Text(full), Text(resolve(root)))
        THEN [throws |-> TRUE, full |-> full]
        ELSE [throws |-> FALSE, full |-> full]

\* The location and the directories above it.
Prefixes(loc) == {SubSeq(loc, 1, n) : n \in 0..Len(loc)}

Parent(loc) == SubSeq(loc, 1, Len(loc) - 1)

FsCall(call, at) == [call |-> call, at |-> at]

NoOut == [done |-> FALSE, ok |-> FALSE, effects |-> {}]

Out(ok, took) == [done |-> TRUE, ok |-> ok, effects |-> took]

\* fs.readFile(full): rejects when there is no file at full.
readFile(d, full) ==
  IF full \in d.files
    THEN [ok |-> TRUE, disk |-> d, effects |-> {FsCall("readFile", full)}]
    ELSE [ok |-> FALSE, disk |-> d, effects |-> {}]

\* fs.mkdir(at, {recursive: true}): creates at and the directories above it
\* that are missing; rejects when one of them is a file.
mkdir(d, at) ==
  IF Prefixes(at) \cap d.files # {}
    THEN [ok |-> FALSE, disk |-> d, effects |-> {}]
    ELSE [ok |-> TRUE,
          disk |-> [d EXCEPT !.dirs = @ \cup Prefixes(at)],
          effects |-> {FsCall("mkdir", dir) : dir \in Prefixes(at) \ d.dirs}]

\* fs.writeFile(full, ...) and fs.appendFile(full, ...): create the file if
\* it is missing; reject when full is a directory or is not in one.
putFile(d, call, full) ==
  IF full \in d.dirs \/ Parent(full) \notin d.dirs
    THEN [ok |-> FALSE, disk |-> d, effects |-> {}]
    ELSE [ok |-> TRUE,
          disk |-> [d EXCEPT !.files = @ \cup {full}],
          effects |-> {FsCall(call, full)}]

\* run(args) on disk d: what it resolves with, the disk afterwards and the
\* calls that took effect. Anything thrown is caught and reported as
\* ok: false; join() throws for a path that is not a string.
FsPortRun(d, args) ==
  LET given == "path" \in DOMAIN args
      to == safe(args.path)
      failed(took, after) == [out |-> Out(FALSE, took), disk |-> after]
  IN  CASE args.op = "read" ->
             IF ~given \/ to.throws THEN failed({}, d)
             ELSE LET r == readFile(d, to.full)
                  IN  [out |-> Out(r.ok, r.effects), disk |-> r.disk]
        [] args.op = "write" ->
             IF ~given THEN failed({}, d)
             ELSE LET m == mkdir(d, resolve(join(join(root, args.path), <<"..">>)))
                  IN  IF ~m.ok THEN failed({}, d)
                      ELSE IF to.throws THEN failed(m.effects, m.disk)
                      ELSE LET w == putFile(m.disk, "writeFile", to.full)
                           IN  [out |-> Out(w.ok, m.effects \cup w.effects),
                                disk |-> w.disk]
        [] args.op = "append" ->
             IF ~given \/ to.throws THEN failed({}, d)
             ELSE LET r == putFile(d, "appendFile", to.full)
                  IN  [out |-> Out(r.ok, r.effects), disk |-> r.disk]
        [] OTHER -> failed({}, d)

\* The file systems that run() starts on: the root directory alone, and the
\* root directory with a file in it beside a directory "/we" with a file.
Disks ==
  {[dirs |-> {<<>>, root}, files |-> {}],
   [dirs |-> {<<>>, root, <<"we">>},
    files |-> {<<"w", "x">>, <<"we", "x">>}]}

\* new FsPort(root), before any call of run().
FsNew ==
  /\ fsArgs = [op |-> "stat"]
  /\ disk = [dirs |-> {<<>>, root}, files |-> {}]
  /\ fsOut = NoOut

(* ---- Runtime ---- *)

\* The constructor of Runtime leaves status "idle".
RuntimeNew == rtStatus = "idle"

(* ---- Notifier ---- *)

\* new Notifier(); waitQueue is a Set, which iterates in insertion order.
NotifierInit == [waitQueue |-> <<>>, hasPendingSignal |-> FALSE]

\* Faulty wait(): resolves on a pending signal without clearing the flag.
NotifierWaitSticky(n, w) ==
  IF n.hasPendingSignal
    THEN [n |-> n, resolved |-> TRUE]
    ELSE [n |-> [n EXCEPT !.waitQueue = Append(@, w)], resolved |-> FALSE]

\* Faulty wait(): resolves at once whether or not a signal is pending.
NotifierWaitSpin(n, w) ==
  [n |-> [n EXCEPT !.hasPendingSignal = FALSE], resolved |-> TRUE]

\* Faulty wait(): suspends the caller whether or not a signal is pending.
NotifierWaitAlways(n, w) ==
  [n |-> [n EXCEPT !.waitQueue = Append(@, w)], resolved |-> FALSE]

\* Notifier.wait() called by waiter w: the notifier afterwards, and whether
\* the returned promise is already resolved.
NotifierWait(n, w) ==
  IF n.hasPendingSignal
    THEN [n |-> [n EXCEPT !.hasPendingSignal = FALSE], resolved |-> TRUE]
    ELSE [n |-> [n EXCEPT !.waitQueue = Append(@, w)], resolved |-> FALSE]

\* Faulty signal(): a signal that finds no waiter is dropped.
NotifierSignalLossy(n) ==
  [n |-> [waitQueue |-> <<>>, hasPendingSignal |-> n.hasPendingSignal],
   resumed |-> n.waitQueue]

\* Faulty signal(): sets the pending flag also when it resumed a waiter.
NotifierSignalAlways(n) ==
  [n |-> [waitQueue |-> <<>>, hasPendingSignal |-> TRUE],
   resumed |-> n.waitQueue]

\* Notifier.signal(): the notifier afterwards, and the waiters resumed, in
\* the order their promises resolve.
NotifierSignal(n) ==
  [n |-> [waitQueue |-> <<>>,
          hasPendingSignal |-> IF Len(n.waitQueue) = 0 THEN TRUE
                               ELSE n.hasPendingSignal],
   resumed |-> n.waitQueue]

(* ---- Scheduler ---- *)

EmptyQueue == [l \in Lane |-> [p \in Prio |-> <<>>]]

\* The (lane, priority) index pairs of the non-empty queues of q.
NonEmpty(q) ==
  {c \in (1..Len(LANES)) \X (1..Len(PRIOS)) : Len(q[LANES[c[1]]][PRIOS[c[2]]]) > 0}

\* A variant of getNext with the loops swapped: priority-major, lane-minor.
getNextPrioMajor(q) ==
  IF NonEmpty(q) = {} THEN NoCell
  ELSE LET c == CHOOSE c \in NonEmpty(q) :
                  \A d \in NonEmpty(q) :
                    c[2] < d[2] \/ (c[2] = d[2] /\ c[1] <= d[1])
       IN [lane |-> LANES[c[1]], priority |-> PRIOS[c[2]]]

\* A variant of getNext that walks the lanes in the reverse order.
getNextUiFirst(q) ==
  IF NonEmpty(q) = {} THEN NoCell
  ELSE LET c == CHOOSE c \in NonEmpty(q) :
                  \A d \in NonEmpty(q) :
                    c[1] > d[1] \/ (c[1] = d[1] /\ c[2] <= d[2])
       IN [lane |-> LANES[c[1]], priority |-> PRIOS[c[2]]]

\* Scheduler.getNext(): the first non-empty cell, lanes outer, priorities
\* inner, or null.
RECURSIVE getNextFrom(_, _, _)
getNextFrom(q, i, j) ==
  IF i > Len(LANES) THEN NoCell
  ELSE IF j > Len(PRIOS) THEN getNextFrom(q, i + 1, 1)
  ELSE IF Len(q[LANES[i]][PRIOS[j]]) # 0
         THEN [lane |-> LANES[i], priority |-> PRIOS[j]]
  ELSE getNextFrom(q, i, j + 1)

getNext(q) == getNextFrom(q, 1, 1)

\* An activation of start() at position pc that is not inside tick();
\* worked is what its last tick() returned and run how the task of that
\* tick ended.
Loop(pc, worked, run) ==
  [pc |-> pc, worked |-> worked, task |-> NoTask, run |-> run]

Init ==
  /\ status = "idle"
  /\ queue = EmptyQueue
  /\ notifier = NotifierInit
  /\ loops = [i \in LoopId |-> Loop("unused", FALSE, "ok")]
  /\ jobs = <<>>
  /\ ran = [t \in TaskId |-> 0]
  /\ enqueued = 0
  /\ startResult = "none"
  /\ signals = 0
  /\ waited = "none"
  /\ AgentNew
  /\ port = "step"
  /\ RouterNew
  /\ ToolsNew
  /\ LlmNew(<<>>)
  /\ FsNew
  /\ RuntimeNew

\* The history counter after a signal() that resumed the waiters ws.
Counted(c, ws) == IF Len(ws) = 0 /\ c < MaxSignals THEN c + 1 ELSE c

\* The history of wait() calls after one more, which resolved at once or
\* suspended its caller.
Waited(h, resolved) ==
  IF resolved THEN "passed"
  ELSE IF h = "passed" THEN "passed, suspended"
  ELSE "suspended"

\* Waiters resumed by a signal: the promise each awaits resolves.
Resume(ls, ws) ==
  [i \in LoopId |-> IF i \in Range(ws) THEN [ls[i] EXCEPT !.pc = "resumed"] ELSE ls[i]]

\* The job queue js after activation i reached its next `await` at pc: the
\* continuation is queued when the awaited promise is already settled.
Awaited(js, i, pc) ==
  IF pc \in {"ticked", "passed"} THEN Append(js, i) ELSE js

\* A variant of Shift that reads the head and leaves it in the queue.
ShiftPeek(q, cell) ==
  [task |-> Head(q[cell.lane][cell.priority]), queue |-> q]

\* `this.queue[lane][priority].shift()`: the task taken and the queue left.
Shift(q, cell) ==
  [task |-> Head(q[cell.lane][cell.priority]),
   queue |-> [q EXCEPT ![cell.lane][cell.priority] = Tail(@)]]

\* A variant of Push that inserts at the head of the queue.
PushFront(q, lane, priority, task) ==
  [q EXCEPT ![lane][priority] = <<task>> \o @]

\* A variant of Push that also appends the task to the same priority of
\* the other lanes.
PushAllLanes(q, lane, priority, task) ==
  [l \in Lane |-> [q[l] EXCEPT ![priority] = Append(@, task)]]

\* `this.queue[lane][priority].push(task)`
Push(q, lane, priority, task) ==
  [q EXCEPT ![lane][priority] = Append(@, task)]

\* A variant of Called without the catch: a synchronous throw leaves tick()
\* and start(), which ends the activation.
CalledUncaught(task, threw) ==
  IF threw
    THEN Loop("done", FALSE, "throw")
    ELSE [pc |-> "task", worked |-> FALSE, task |-> task, run |-> "ok"]

\* `await task.run()` inside try/catch, up to the first suspension point:
\* a synchronous throw is caught in the same turn and tick returns true;
\* otherwise tick awaits the task.
Called(task, threw) ==
  IF threw
    THEN Loop("ticked", TRUE, "throw")
    ELSE [pc |-> "task", worked |-> FALSE, task |-> task, run |-> "ok"]

\* Whether run() of the task may throw before it returns a promise: the
\* run() that the ToolsAdapter enqueues is an async function, which does
\* not, and neither do those of the LlmAdapter.
Throws(task) ==
  IF taskEff[task] = NoEff /\ taskCall[task] = NoCall THEN BOOLEAN ELSE {FALSE}

\* Scheduler.tick() up to its first suspension point, run by activation i
\* with the job queue js.
tick(i, js) ==
  LET next == getNext(queue) IN
  IF next = NoCell
    THEN /\ loops' = [loops EXCEPT ![i] = Loop("ticked", FALSE, "ok")]
         /\ jobs' = Awaited(js, i, "ticked")
         /\ UNCHANGED <<queue, ran>>
    ELSE LET s == Shift(queue, next) IN
         /\ queue' = s.queue
         /\ ran' = [ran EXCEPT ![s.task] = @ + 1]
         /\ \E threw \in Throws(s.task) :
              /\ loops' = [loops EXCEPT ![i] = Called(s.task, threw)]
              /\ jobs' = Awaited(js, i, Called(s.task, threw).pc)

\* A variant of WhileRunning that does not test the status.
WhileRunningAlways(i, st, js) == tick(i, js)

\* The head of `while (this.state.status === "running")` with the status st.
WhileRunning(i, st, js) ==
  IF st = "running"
    THEN tick(i, js)
    ELSE /\ loops' = [loops EXCEPT ![i] = Loop("done", FALSE, "ok")]
         /\ jobs' = js
         /\ UNCHANGED <<queue, ran>>

\* Scheduler.start(), by what it does to the scheduler. The function is
\* async: its throw rejects the promise it returns and is not raised in the
\* caller.
start ==
  /\ IF status = "running"
       THEN /\ startResult' = "ok"
            /\ UNCHANGED <<status, queue, ran, loops, jobs>>
     ELSE IF status = "stopped"
       THEN /\ startResult' = "threw"
            /\ UNCHANGED <<status, queue, ran, loops, jobs>>
     ELSE /\ \E i \in LoopId :
               /\ loops[i].pc = "unused"
               /\ \A j \in LoopId : j < i => loops[j].pc # "unused"
               /\ status' = "running"
               /\ tick(i, jobs)
          /\ startResult' = "ok"
  /\ UNCHANGED <<notifier, enqueued, signals, waited>>

\* start() called on a scheduler that stands alone.
Start ==
  /\ start
  /\ UNCHANGED notScheduler

\* The continuation of activation i is the next promise job to run.
Runs(i) == Len(jobs) > 0 /\ Head(jobs) = i

\* start() after `await this.tick()`: the rest of the loop body, then the
\* loop head.
AfterTick(i) ==
  /\ Runs(i)
  /\ loops[i].pc = "ticked"
  /\ IF ~loops[i].worked /\ status = "running"
       THEN LET w == NotifierWait(notifier, i)
                pc == IF w.resolved THEN "passed" ELSE "waiting"
            IN /\ status' = "idle"
               /\ notifier' = w.n
               /\ loops' = [loops EXCEPT ![i].pc = pc]
               /\ jobs' = Awaited(Tail(jobs), i, pc)
               /\ signals' = 0
               /\ waited' = Waited(waited, w.resolved)
               /\ UNCHANGED <<queue, ran>>
       ELSE /\ WhileRunning(i, status, Tail(jobs))
            /\ UNCHANGED <<status, notifier, signals, waited>>
  /\ UNCHANGED <<enqueued, startResult>>
  /\ UNCHANGED notScheduler

\* A variant of Rechecked that sets "running" without the test.
RecheckedAlways(st) == "running"

\* A variant of Rechecked that also leaves "stopped" for "running".
RecheckedAny(st) == IF st \in {"idle", "stopped"} THEN "running" ELSE st

\* The status after `if (this.state.status === "idle") this.state.status = "running"`.
Rechecked(st) == IF st = "idle" THEN "running" ELSE st

\* start() after `await this.notifier.wait()`.
AfterWait(i) ==
  /\ Runs(i)
  /\ loops[i].pc \in {"passed", "resumed"}
  /\ status' = Rechecked(status)
  /\ WhileRunning(i, Rechecked(status), Tail(jobs))
  /\ UNCHANGED <<notifier, enqueued, startResult, signals, waited>>
  /\ UNCHANGED notScheduler

\* The promise returned by task.run() settles (the task terminates), at
\* once when run() returned no promise.
Settles(i, run) ==
  /\ loops[i].pc = "task"
  /\ loops' = [loops EXCEPT ![i].pc = "settled", ![i].run = run]
  /\ jobs' = Append(jobs, i)
  /\ UNCHANGED <<status, queue, notifier, ran, enqueued, startResult, signals, waited>>

\* The same for a task that touches nothing but itself.
TaskSettle(i, run) ==
  /\ Settles(i, run)
  /\ UNCHANGED notScheduler

\* tick() after `await task.run()`: the end or error record is logged on
\* either path and tick returns true, which settles the promise start()
\* awaits.
AfterRun(i) ==
  /\ Runs(i)
  /\ loops[i].pc = "settled"
  /\ loops' = [loops EXCEPT ![i] = Loop("ticked", TRUE, loops[i].run)]
  /\ jobs' = Awaited(Tail(jobs), i, "ticked")
  /\ UNCHANGED <<status, queue, notifier, ran, enqueued, startResult, signals, waited>>
  /\ UNCHANGED notScheduler

\* Scheduler.enqueue({task, priority, lane})
enqueue(lane, priority) ==
  /\ enqueued < MaxTasks
  /\ LET task == enqueued + 1
         s == NotifierSignal(notifier)
     IN /\ queue' = Push(queue, lane, priority, task)
        /\ notifier' = s.n
        /\ loops' = Resume(loops, s.resumed)
        /\ jobs' = jobs \o s.resumed
        /\ signals' = Counted(signals, s.resumed)
        /\ waited' = "none"
  /\ enqueued' = enqueued + 1
  /\ UNCHANGED <<status, ran, startResult>>

\* enqueue() called with a task that touches nothing but itself.
Enqueue(lane, priority) ==
  /\ enqueue(lane, priority)
  /\ UNCHANGED notScheduler

\* Scheduler.stop(), by what it does to the scheduler.
stop ==
  /\ status' = "stopped"
  /\ LET s == NotifierSignal(notifier)
     IN /\ notifier' = s.n
        /\ loops' = Resume(loops, s.resumed)
        /\ jobs' = jobs \o s.resumed
        /\ signals' = Counted(signals, s.resumed)
        /\ waited' = "none"
  /\ UNCHANGED <<queue, ran, enqueued, startResult>>

\* stop() called on a scheduler that stands alone.
Stop ==
  /\ stop
  /\ UNCHANGED notScheduler

\* The callers of start(), stop() and enqueue() and the settling of task
\* promises may fall between any two promise jobs; the continuations of the
\* run loop run in the order of the job queue.
Next ==
  \/ Start
  \/ Stop
  \/ \E l \in Lane, p \in Prio : Enqueue(l, p)
  \/ \E i \in LoopId : AfterTick(i)
  \/ \E i \in LoopId : AfterWait(i)
  \/ \E i \in LoopId, run \in Run \ {"throw"} : TaskSettle(i, run)
  \/ \E i \in LoopId : AfterRun(i)

Spec == Init /\ [][Next]_vars

\* Queued promise jobs run, and tasks terminate.
Fairness ==
  \A i \in LoopId :
    /\ WF_vars(AfterTick(i))
    /\ WF_vars(AfterWait(i))
    /\ WF_vars(\E run \in Run \ {"throw"} : TaskSettle(i, run))
    /\ WF_vars(AfterRun(i))

FairSpec == Spec /\ Fairness

(***************************************************************************)
(* BuilderAgent                                                            *)
(*                                                                         *)
(* The operators below take and return the agent as a record a of its      *)
(* fields, so that a handler is the composition of the calls it makes.     *)
(* One action is one event handed to on(), one call of interrupt(), or one *)
(* settled model call together with the continuation of loop() that it     *)
(* resumes, up to the next model call or the return.                       *)
(***************************************************************************)

Agent ==
  [interrupted |-> interrupted, steps |-> steps, currentReqId |-> currentReqId,
   convo |-> convo, strands |-> strands, effects |-> effects,
   started |-> started, stops |-> stops, emitted |-> emitted,
   submitted |-> submitted, turnCalls |-> turnCalls]

\* The agent as a handler finds it: nothing passed to onUpdate or to
\* submitEffect yet.
Entered == [Agent EXCEPT !.emitted = <<>>, !.submitted = <<>>]

\* The agent is left as the record a.
Becomes(a) ==
  /\ interrupted' = a.interrupted
  /\ steps' = a.steps
  /\ currentReqId' = a.currentReqId
  /\ convo' = a.convo
  /\ strands' = a.strands
  /\ effects' = a.effects
  /\ started' = a.started
  /\ stops' = a.stops
  /\ emitted' = a.emitted
  /\ submitted' = a.submitted
  /\ turnCalls' = a.turnCalls

\* this.onUpdate(evt)
onUpdate(a, evt) == [a EXCEPT !.emitted = Append(@, evt)]

\* this.submitEffect(eff); the effect is answered by a ToolResult event.
submitEffect(a, eff) ==
  [a EXCEPT !.submitted = Append(@, eff), !.effects = @ + 1]

\* `!this.currentReqId`
Falsy(req) == req \in {NullReq, EmptyReq}

\* BuilderAgent.emitPlanningStop(reason)
emitPlanningStop(a, reason) ==
  IF Falsy(a.currentReqId) THEN a
  ELSE [onUpdate(a, UI("planning-stop", a.currentReqId, reason))
          EXCEPT !.stops[a.currentReqId] = Append(@, reason),
                 !.currentReqId = NullReq]

\* Faulty loop(): a repair request counts as a step too.
llmOnceCounted(a, s, pc, i) ==
  [a EXCEPT !.strands[s] = [pc |-> pc, i |-> i,
                            calls |-> IF pc = "llm" THEN 1 ELSE @.calls + 1,
                            prompt |-> a.convo],
            !.turnCalls = @ + 1,
            !.steps = IF pc = "repair" THEN @ + 1 ELSE @]

\* `await this.llmOnce(prompt, this.id)` by strand s: the prompt is the
\* transcript rendered entry by entry; pc tells the call of loop() ("llm")
\* from the call of a repair request ("repair") in iteration i of
\* parseOrRepair.
llmOnce(a, s, pc, i) ==
  [a EXCEPT !.strands[s] = [pc |-> pc, i |-> i,
                            calls |-> IF pc = "llm" THEN 1 ELSE @.calls + 1,
                            prompt |-> a.convo],
            !.turnCalls = @ + 1]

\* loop() returns: strand s is over.
Return(a, s) == [a EXCEPT !.strands[s] = FreeStrand]

\* Faulty loop(): the budget is tested with > instead of >=.
loopOver(a, s) ==
  IF a.interrupted
    THEN Return(emitPlanningStop(
                  onUpdate(a, UI("status", NullReq, "interrupted")),
                  "interrupted"), s)
  ELSE IF a.steps > MAX_STEPS
    THEN Return(emitPlanningStop(
                  onUpdate(a, UI("status", NullReq, "max-steps")),
                  "max-steps"), s)
  ELSE llmOnce([a EXCEPT !.steps = @ + 1], s, "llm", 0)

\* BuilderAgent.loop() run by strand s up to its first await.
loop(a, s) ==
  IF a.interrupted
    THEN Return(emitPlanningStop(
                  onUpdate(a, UI("status", NullReq, "interrupted")),
                  "interrupted"), s)
  ELSE IF a.steps >= MAX_STEPS
    THEN Return(emitPlanningStop(
                  onUpdate(a, UI("status", NullReq, "max-steps")),
                  "max-steps"), s)
  ELSE llmOnce([a EXCEPT !.steps = @ + 1], s, "llm", 0)

\* Faulty handleMessage: after submitting the effect of an action message
\* it goes on to the next round instead of returning.
handleMessageNoSuspend(a, s, type) ==
  CASE type = "step" -> loop(onUpdate(a, UI("step", NullReq, "")), s)
    [] type = "action" ->
         loop(submitEffect(onUpdate(a, UI("action", NullReq, "")),
                           ToolCall(Self)), s)
    [] type = "deliverable" ->
         loop(onUpdate(a, UI("deliverable", NullReq, "")), s)
    [] type = "final" ->
         Return(emitPlanningStop(onUpdate(a, UI("final", NullReq, "")),
                                 "final"), s)

\* BuilderAgent.handleMessage(msg) for a message of the given type.
handleMessage(a, s, type) ==
  CASE type = "step" -> loop(onUpdate(a, UI("step", NullReq, "")), s)
    [] type = "action" ->
         Return(submitEffect(onUpdate(a, UI("action", NullReq, "")),
                             ToolCall(Self)), s)
    [] type = "deliverable" ->
         loop(onUpdate(a, UI("deliverable", NullReq, "")), s)
    [] type = "final" ->
         Return(emitPlanningStop(onUpdate(a, UI("final", NullReq, "")),
                                 "final"), s)

\* Faulty catch handler: takes the latest entry off the transcript.
plannerErrorTrim(a, s) ==
  Return(emitPlanningStop(
           onUpdate([a EXCEPT !.convo = SubSeq(@, 1, Len(@) - 1)],
                    UI("error", NullReq, "planner")),
           "error"), s)

\* The two catch handlers of loop(): an error event of phase planner, then
\* planning-stop with reason error, and loop() returns.
plannerError(a, s) ==
  Return(emitPlanningStop(onUpdate(a, UI("error", NullReq, "planner")),
                          "error"), s)

\* JSON.parse(raw) returns (it throws on text that is not JSON).
Json(raw) == raw # "invalid"

\* The object JSON.parse(raw) returns, by the fields the schema tests.
Doc(raw) ==
  CASE raw \in MsgType -> [schema_version |-> 1, type |-> raw, step |-> 1]
    [] raw = "v2" -> [schema_version |-> 2, type |-> "step", step |-> 1]
    [] raw = "step0" -> [schema_version |-> 1, type |-> "step", step |-> 0]
    [] raw = "note" -> [schema_version |-> 1, type |-> "note", step |-> 1]

\* Faulty schema: any schema_version passes.
PlannerTurnAnyVersion(obj) ==
  /\ obj.type \in MsgType
  /\ obj.step >= 1

\* PlannerTurn.parse(obj) returns: schema_version is the literal 1, the
\* message is of one of the four types, and its step is an integer >= 1.
PlannerTurn(obj) ==
  /\ obj.schema_version = 1
  /\ obj.type \in MsgType
  /\ obj.step >= 1

\* JSON.parse(raw) and PlannerTurn.parse(obj) succeed.
Valid(raw) == Json(raw) /\ PlannerTurn(Doc(raw))

\* Faulty parseOrRepair: one repair request more than MAX_REPAIRS.
parseOrRepairExtra(a, s, raw, i) ==
  IF Valid(raw)
    THEN handleMessage([a EXCEPT !.convo = Append(@, Entry("assistant", raw))],
                       s, Doc(raw).type)
  ELSE IF i = MAX_REPAIRS + 1
    THEN plannerError(a, s)
  ELSE llmOnce([a EXCEPT !.convo = Append(@, Entry("user", "repair"))],
               s, "repair", i)

\* One iteration i of the for loop of parseOrRepair on the text raw, and
\* what loop() does with the outcome: a valid turn is recorded as the
\* assistant entry and handled; an invalid one is followed by a repair
\* request while i < MAX_REPAIRS, and by the thrown error otherwise.
parseOrRepair(a, s, raw, i) ==
  IF Valid(raw)
    THEN handleMessage([a EXCEPT !.convo = Append(@, Entry("assistant", raw))],
                       s, Doc(raw).type)
  ELSE IF i = MAX_REPAIRS
    THEN plannerError(a, s)
  ELSE llmOnce([a EXCEPT !.convo = Append(@, Entry("user", "repair"))],
               s, "repair", i)

\* The continuation of strand s when its model call settled with reply.
Settled(a, s, reply) ==
  IF reply = "fail" THEN plannerError(a, s)
  ELSE IF a.strands[s].pc = "llm" THEN parseOrRepair(a, s, reply, 0)
  ELSE parseOrRepair(a, s, reply, a.strands[s].i + 1)

\* The strand that a new call of loop() takes.
FirstFree ==
  CHOOSE s \in StrandId :
    /\ strands[s].pc = "free"
    /\ \A u \in StrandId : strands[u].pc = "free" => s <= u

HasFree == \E s \in StrandId : strands[s].pc = "free"

\* BuilderAgent.on({type: "UserInput", target: this.id, reqId})
OnUserInput(reqId) ==
  /\ turns < MaxTurns
  /\ reqId = turns + 1
  /\ turns = 0 \/ others < MaxOther
  /\ HasFree
  /\ Becomes(loop([Entered EXCEPT
                     !.currentReqId = reqId,
                     !.convo = Append(@, Entry("user", "input")),
                     !.steps = 0,
                     !.interrupted = FALSE,
                     !.emitted = <<UI("user-turn", reqId, ""),
                                   UI("planning-start", reqId, "")>>,
                     !.started[reqId] = @ + 1,
                     !.turnCalls = 0],
                  FirstFree))
  /\ lastReply' = "none"
  /\ UNCHANGED halted
  /\ turns' = turns + 1
  /\ others' = IF turns = 0 THEN others ELSE others + 1
  /\ UNCHANGED port
  /\ UNCHANGED notAgent

\* BuilderAgent.interrupt()
Interrupt ==
  /\ others < MaxOther
  /\ Becomes([Entered EXCEPT !.interrupted = TRUE])
  /\ lastReply' = "none"
  /\ others' = others + 1
  /\ UNCHANGED <<turns, port, halted>>
  /\ UNCHANGED notAgent

\* BuilderAgent.on({type: "ToolResult", target: this.id, ok}), the answer
\* to one of the effects submitted.
OnToolResult(ok) ==
  /\ effects > 0
  /\ HasFree
  /\ Becomes(loop(onUpdate(
                    [Entered EXCEPT
                       !.effects = @ - 1,
                       !.convo = Append(@, Entry("user", IF ok THEN "TOOL ok"
                                                         ELSE "TOOL error"))],
                    UI("observation", NullReq, IF ok THEN "ok" ELSE "error")),
                  FirstFree))
  /\ lastReply' = "none"
  /\ UNCHANGED <<turns, others, port, halted>>
  /\ UNCHANGED notAgent

\* BuilderAgent.on({type: "LlmError", target: this.id})
OnLlmError ==
  /\ others < MaxOther
  /\ Becomes(emitPlanningStop(onUpdate(Entered, UI("error", NullReq, "llm")),
                              "error"))
  /\ lastReply' = "none"
  /\ halted' = IF Falsy(currentReqId) THEN halted
                ELSE halted \cup {currentReqId}
  /\ others' = others + 1
  /\ UNCHANGED <<turns, port>>
  /\ UNCHANGED notAgent

\* The model call of strand s settles with reply, and loop() continues.
LlmOnceSettles(s, reply) ==
  /\ strands[s].pc \in {"llm", "repair"}
  /\ reply = port \/ others < MaxOther
  /\ Becomes(Settled(Entered, s, reply))
  /\ lastReply' = reply
  /\ others' = IF reply = port THEN others ELSE others + 1
  /\ UNCHANGED <<turns, port, halted>>
  /\ UNCHANGED notAgent

AgentInit ==
  /\ status = "idle"
  /\ queue = EmptyQueue
  /\ notifier = NotifierInit
  /\ loops = [i \in LoopId |-> Loop("unused", FALSE, "ok")]
  /\ jobs = <<>>
  /\ ran = [t \in TaskId |-> 0]
  /\ enqueued = 0
  /\ startResult = "none"
  /\ signals = 0
  /\ waited = "none"
  /\ AgentNew
  /\ port \in Port
  /\ RouterNew
  /\ ToolsNew
  /\ LlmNew(<<>>)
  /\ FsNew
  /\ RuntimeNew

AgentNext ==
  \/ \E reqId \in ReqId : OnUserInput(reqId)
  \/ Interrupt
  \/ \E ok \in BOOLEAN : OnToolResult(ok)
  \/ OnLlmError
  \/ \E s \in StrandId, reply \in Reply : LlmOnceSettles(s, reply)

AgentSpec == AgentInit /\ [][AgentNext]_vars

\* Model calls settle and the answers to tool effects arrive.
AgentFairness ==
  /\ \A s \in StrandId : WF_vars(\E reply \in Reply : LlmOnceSettles(s, reply))
  /\ WF_vars(\E ok \in BOOLEAN : OnToolResult(ok))

AgentFairSpec == AgentSpec /\ AgentFairness

(***************************************************************************)
(* Router                                                                  *)
(***************************************************************************)

\* Faulty register(): an id that is taken keeps its instance.
registerFirstWins(acts, k) ==
  IF IdOf(k) \in DOMAIN acts THEN acts ELSE (IdOf(k) :> k) @@ acts

\* Router.register(actor): this.actors.set(actor.id, actor)
register(acts, k) == (IdOf(k) :> k) @@ acts

\* Router.get(id): this.actors.get(id)
get(acts, id) == IF id \in DOMAIN acts THEN acts[id] ELSE NoActor

\* Faulty dispatch(): an unknown target is ignored like a missing one.
dispatchSwallow(acts, evt) ==
  IF "target" \notin DOMAIN evt THEN [outcome |-> "returned", to |-> NoActor]
  ELSE IF get(acts, evt.target) = NoActor
    THEN [outcome |-> "returned", to |-> NoActor]
  ELSE [outcome |-> "returned", to |-> get(acts, evt.target)]

\* Router.dispatch(evt): how the call ends and the instance whose on() it
\* calls (NoActor: none).
dispatch(acts, evt) ==
  IF "target" \notin DOMAIN evt THEN [outcome |-> "returned", to |-> NoActor]
  ELSE IF get(acts, evt.target) = NoActor
    THEN [outcome |-> "threw", to |-> NoActor]
  ELSE [outcome |-> "returned", to |-> get(acts, evt.target)]

\* router.register(actor) for the instance k
Register(k) ==
  /\ Len(registered) < MaxRegs
  /\ actors' = register(actors, k)
  /\ registered' = Append(registered, k)
  /\ UNCHANGED <<handled, dispatchLog>>
  /\ UNCHANGED notRouter

\* router.dispatch(evt)
Dispatch(evt) ==
  /\ Len(dispatchLog) < MaxDispatch
  /\ LET d == dispatch(actors, evt) IN
       /\ handled' = IF d.to = NoActor THEN handled
                      ELSE [handled EXCEPT ![d.to] = Append(@, evt)]
       /\ dispatchLog' = Append(dispatchLog, [evt |-> evt, outcome |-> d.outcome])
  /\ UNCHANGED <<actors, registered>>
  /\ UNCHANGED notRouter

RouterNext ==
  \/ \E k \in Inst : Register(k)
  \/ \E evt \in RouterEvent : Dispatch(evt)

RouterSpec == Init /\ [][RouterNext]_vars

(***************************************************************************)
(* ToolsAdapter                                                            *)
(*                                                                         *)
(* The adapter enqueues on the scheduler above; the task it enqueues calls *)
(* the port, and when the port's promise resolves it passes a ToolResult   *)
(* to dispatch and ends.                                                   *)
(***************************************************************************)

\* Faulty answer to an unknown tool: reported as a success.
unknownToolOk(eff) ==
  [type |-> "ToolResult", target |-> eff.target, tool |-> eff.tool,
   ok |-> TRUE, data |-> "unknown tool"]

\* The event submit() dispatches for a tool name that is not registered.
unknownTool(eff) ==
  [type |-> "ToolResult", target |-> eff.target, tool |-> eff.tool,
   ok |-> FALSE, data |-> "unknown tool"]

\* Faulty task: the event does not carry the port's ok.
toolResultOk(eff, out) ==
  [type |-> "ToolResult", target |-> eff.target, tool |-> eff.tool,
   ok |-> TRUE, data |-> out.data]

\* The event the enqueued task dispatches when the port resolved with out.
toolResult(eff, out) ==
  [type |-> "ToolResult", target |-> eff.target, tool |-> eff.tool,
   ok |-> out.ok, data |-> out.data]

\* this.dispatch(evt), called for the effect e
Report(log, evt, e) == Append(log, [evt |-> evt, eff |-> e])

\* ToolsAdapter.register(port)
ToolRegister(name) ==
  /\ registry' = registry \cup {name}
  /\ UNCHANGED <<effs, taskEff, portOut, toolResults>>
  /\ UNCHANGED schedulerVars
  /\ UNCHANGED notTools

\* ToolsAdapter.submit(eff)
Submit(eff) ==
  /\ Len(effs) < MaxEffects
  /\ effs' = Append(effs, eff)
  /\ LET e == Len(effs) + 1 IN
       IF eff.kind # "ToolCall"
         THEN /\ UNCHANGED <<taskEff, toolResults>>
              /\ UNCHANGED schedulerVars
       ELSE IF eff.tool \notin registry
         THEN /\ toolResults' = Report(toolResults, unknownTool(eff), e)
              /\ UNCHANGED taskEff
              /\ UNCHANGED schedulerVars
       ELSE /\ enqueue("domain", "medium")
            /\ taskEff' = [taskEff EXCEPT ![enqueued + 1] = e]
            /\ UNCHANGED toolResults
  /\ UNCHANGED <<registry, portOut>>
  /\ UNCHANGED notTools

\* The promise of tool.run(args) that the task run by activation i awaits
\* resolves with out: the task dispatches the ToolResult and ends.
ToolSettle(i, out) ==
  /\ loops[i].pc = "task"
  /\ taskEff[loops[i].task] # NoEff
  /\ LET e == taskEff[loops[i].task] IN
       /\ portOut' = (e :> out) @@ portOut
       /\ toolResults' = Report(toolResults, toolResult(effs[e], out), e)
  /\ Settles(i, "ok")
  /\ UNCHANGED <<registry, effs, taskEff>>
  /\ UNCHANGED notTools

ToolsNext ==
  \/ Start
  \/ Stop
  \/ \E name \in ToolName : ToolRegister(name)
  \/ \E eff \in Effect : Submit(eff)
  \/ \E i \in LoopId : AfterTick(i)
  \/ \E i \in LoopId : AfterWait(i)
  \/ \E i \in LoopId, out \in PortResult : ToolSettle(i, out)
  \/ \E i \in LoopId : AfterRun(i)

ToolsSpec == Init /\ [][ToolsNext]_vars

\* Queued promise jobs run, and the calls of the ports end.
ToolsFairness ==
  \A i \in LoopId :
    /\ WF_vars(AfterTick(i))
    /\ WF_vars(AfterWait(i))
    /\ WF_vars(\E out \in PortResult : ToolSettle(i, out))
    /\ WF_vars(AfterRun(i))

ToolsFairSpec == ToolsSpec /\ ToolsFairness

(***************************************************************************)
(* LlmAdapter                                                              *)
(*                                                                         *)
(* run() and runOnce() dispatch llm-start and enqueue a task on the        *)
(* scheduler above. The task iterates over the chunks of the port; one     *)
(* step is one iteration of its `for await`, or the end of the iteration   *)
(* (the generator returns or throws) with everything that follows it.      *)
(***************************************************************************)

\* The events passed to dispatch; requestId and reqId are the call.
LlmUi(kind, c) == [kind |-> kind, target |-> calls[c].target, requestId |-> c]
LlmEvt(type, c) == [type |-> type, target |-> calls[c].target, reqId |-> c]
StreamToken(c, chunk) ==
  [kind |-> "stream-token", target |-> calls[c].target, token |-> chunk]
\* Faulty event: a kind that the UI contract does not list.
StreamEnd(c) == [kind |-> "stream-end", target |-> calls[c].target]

StreamDone(c) == [kind |-> "stream-done", target |-> calls[c].target]

\* The number of pieces of text.split(/\s+/): one more than the maximal
\* runs of white space in it.
RECURSIVE Blanks(_, _)
Blanks(text, inRun) ==
  IF text = <<>> THEN 0
  ELSE IF Head(text) = " "
    THEN (IF inRun THEN 0 ELSE 1) + Blanks(Tail(text), TRUE)
  ELSE Blanks(Tail(text), FALSE)

\* `buf.length ? buf.split(/\s+/).length : 0`
RoughTokens(buf) == IF Len(buf) = 0 THEN 0 ELSE Blanks(buf, FALSE) + 1

\* The call that starts next.
NextCall == CHOOSE c \in CallId : calls[c].mode = "none" /\
                                  \A d \in CallId : d < c => calls[d].mode # "none"

\* The part common to run() and runOnce(): llm-start is dispatched, then
\* the task is enqueued.
Begin(mode, target) ==
  /\ \E c \in CallId : calls[c].mode = "none"
  /\ LET c == NextCall IN
       /\ calls' = [calls EXCEPT ![c] =
                      [NoCallState EXCEPT
                         !.mode = mode, !.target = target,
                         !.outcome = IF mode = "once" THEN "pending" ELSE "none",
                         !.events = <<[kind |-> "llm-start", target |-> target,
                                       requestId |-> c]>>]]
       /\ taskCall' = [taskCall EXCEPT ![enqueued + 1] = c]
  /\ enqueue("domain", "medium")
  /\ UNCHANGED portText

\* LlmAdapter.run(prompt, target)
LlmRun(target) ==
  /\ Begin("stream", target)
  /\ UNCHANGED notLlm

\* LlmAdapter.runOnce(prompt, target), up to its await
LlmRunOnce(target) ==
  /\ Begin("once", target)
  /\ UNCHANGED notLlm

\* Activation i runs the task of an LlmAdapter call.
Generating(i) ==
  /\ loops[i].pc = "task"
  /\ taskCall[loops[i].task] # NoCall

\* Faulty streaming iteration: the stream-token event is passed first.
StreamedTokenFirst(c, chunk) ==
  [calls[c] EXCEPT
     !.pos = @ + 1,
     !.tokenCount = @ + 1,
     !.events = @ \o <<StreamToken(c, chunk),
                        LlmEvt("TokenChunk", c) @@ [text |-> chunk]>>]

\* One iteration of the `for await` of run(): the call afterwards.
Streamed(c, chunk) ==
  [calls[c] EXCEPT
     !.pos = @ + 1,
     !.tokenCount = @ + 1,
     !.events = @ \o <<LlmEvt("TokenChunk", c) @@ [text |-> chunk],
                        StreamToken(c, chunk)>>]

\* Faulty buffering: the chunk replaces the buffer.
BufferedLast(c, chunk) ==
  [calls[c] EXCEPT !.pos = @ + 1, !.buf = chunk]

\* One iteration of the `for await` of runOnce(): `buf += chunk`.
Buffered(c, chunk) ==
  [calls[c] EXCEPT !.pos = @ + 1, !.buf = @ \o chunk]

\* The port yields the next chunk to the task run by activation i.
Yields(i) ==
  /\ Generating(i)
  /\ LET c == taskCall[loops[i].task] IN
       /\ calls[c].pos < Len(portText)
       /\ calls' = [calls EXCEPT ![c] =
                      IF calls[c].mode = "stream"
                        THEN Streamed(c, portText[calls[c].pos + 1])
                        ELSE Buffered(c, portText[calls[c].pos + 1])]
  /\ UNCHANGED <<portText, taskCall>>
  /\ UNCHANGED schedulerVars
  /\ UNCHANGED notLlm

\* Faulty failure path of run(): llm-end is left out.
StreamFailedOpen(c) ==
  [calls[c] EXCEPT
     !.pos = Len(portText) + 1,
     !.events = @ \o <<LlmEvt("LlmError", c),
                        StreamDone(c)>>]

\* The catch block of run(): the call afterwards.
StreamFailed(c) ==
  [calls[c] EXCEPT
     !.pos = Len(portText) + 1,
     !.events = @ \o <<LlmEvt("LlmError", c),
                        StreamDone(c),
                        LlmUi("llm-end", c) @@ [tokens |-> calls[c].tokenCount]>>]

\* run() after its `for await`: the call afterwards.
StreamEnded(c) ==
  [calls[c] EXCEPT
     !.pos = Len(portText) + 1,
     !.events = @ \o <<StreamDone(c),
                        LlmEvt("LlmComplete", c),
                        LlmUi("llm-end", c) @@ [tokens |-> calls[c].tokenCount]>>]

\* runOnce() after its task called reject(e): llm-end is dispatched and the
\* error is thrown again.
OnceFailed(c) ==
  [calls[c] EXCEPT
     !.pos = Len(portText) + 1,
     !.outcome = "rejected",
     !.events = Append(@, LlmUi("llm-end", c))]

\* runOnce() after its task called resolve(): llm-end is dispatched and buf
\* is returned.
OnceEnded(c) ==
  [calls[c] EXCEPT
     !.pos = Len(portText) + 1,
     !.outcome = "resolved",
     !.events = Append(@, LlmUi("llm-end", c)
                            @@ [tokens |-> RoughTokens(calls[c].buf)])]

\* The iteration of the task run by activation i ends: the generator
\* returns after its last chunk, and the task's promise resolves.
Exhausts(i) ==
  /\ Generating(i)
  /\ LET c == taskCall[loops[i].task] IN
       /\ calls[c].pos = Len(portText)
       /\ calls' = [calls EXCEPT ![c] =
                      IF calls[c].mode = "stream" THEN StreamEnded(c)
                      ELSE OnceEnded(c)]
  /\ Settles(i, "ok")
  /\ UNCHANGED <<portText, taskCall>>
  /\ UNCHANGED notLlm

\* The generator throws instead of yielding or returning; the task catches
\* the error, so its promise resolves all the same.
GenerateFails(i) ==
  /\ Generating(i)
  /\ LET c == taskCall[loops[i].task] IN
       /\ calls[c].pos <= Len(portText)
       /\ calls' = [calls EXCEPT ![c] =
                      IF calls[c].mode = "stream" THEN StreamFailed(c)
                      ELSE OnceFailed(c)]
  /\ Settles(i, "ok")
  /\ UNCHANGED <<portText, taskCall>>
  /\ UNCHANGED notLlm

\* As Init, for any output of the port.
LlmInit ==
  /\ status = "idle"
  /\ queue = EmptyQueue
  /\ notifier = NotifierInit
  /\ loops = [i \in LoopId |-> Loop("unused", FALSE, "ok")]
  /\ jobs = <<>>
  /\ ran = [t \in TaskId |-> 0]
  /\ enqueued = 0
  /\ startResult = "none"
  /\ signals = 0
  /\ waited = "none"
  /\ AgentNew
  /\ port = "step"
  /\ RouterNew
  /\ ToolsNew
  /\ \E text \in ChunkSeq : LlmNew(text)
  /\ FsNew
  /\ RuntimeNew

LlmNext ==
  \/ Start
  \/ Stop
  \/ \E target \in LlmTarget : LlmRun(target)
  \/ \E target \in LlmTarget : LlmRunOnce(target)
  \/ \E i \in LoopId : AfterTick(i)
  \/ \E i \in LoopId : AfterWait(i)
  \/ \E i \in LoopId : Yields(i)
  \/ \E i \in LoopId : Exhausts(i)
  \/ \E i \in LoopId : GenerateFails(i)
  \/ \E i \in LoopId : AfterRun(i)

LlmSpec == LlmInit /\ [][LlmNext]_vars

\* Queued promise jobs run, and the port yields, returns or throws.
LlmFairness ==
  \A i \in LoopId :
    /\ WF_vars(AfterTick(i))
    /\ WF_vars(AfterWait(i))
    /\ WF_vars(Yields(i))
    /\ WF_vars(Exhausts(i))
    /\ WF_vars(AfterRun(i))

LlmFairSpec == LlmSpec /\ LlmFairness

(* ---- FsPort: specification ---- *)

\* await tool.run(args), to the point where the promise resolves.
FsRun ==
  /\ ~fsOut.done
  /\ LET r == FsPortRun(disk, fsArgs)
     IN  /\ fsOut' = r.out
         /\ disk' = r.disk
  /\ UNCHANGED fsArgs
  /\ UNCHANGED notFs

\* As Init, for any args and any of the file systems.
FsInit ==
  /\ status = "idle"
  /\ queue = EmptyQueue
  /\ notifier = NotifierInit
  /\ loops = [i \in LoopId |-> Loop("unused", FALSE, "ok")]
  /\ jobs = <<>>
  /\ ran = [t \in TaskId |-> 0]
  /\ enqueued = 0
  /\ startResult = "none"
  /\ signals = 0
  /\ waited = "none"
  /\ AgentNew
  /\ port = "step"
  /\ RouterNew
  /\ ToolsNew
  /\ LlmNew(<<>>)
  /\ fsArgs \in FsArgs
  /\ disk \in Disks
  /\ fsOut = NoOut
  /\ RuntimeNew

FsNext == FsRun

FsSpec == FsInit /\ [][FsNext]_vars

(* ---- Runtime: the events handed to onReplyUpdate ---- *)

\* AGENT_UI_EVENT_KINDS of ui-messages.ts
AGENT_UI_EVENT_KINDS ==
  <<"session-start", "user-turn", "planning-start", "step", "action",
    "observation", "deliverable", "final", "status", "error",
    "planning-stop", "llm-start", "stream-token", "stream-done", "llm-end">>

\* EXPECTED_KINDS of ui-messages.test.ts, the documented kinds in lifecycle
\* order.
EXPECTED_KINDS ==
  <<"session-start", "user-turn", "planning-start", "step", "action",
    "observation", "deliverable", "final", "status", "error",
    "planning-stop", "llm-start", "stream-token", "stream-done", "llm-end">>

\* The event that the constructor of Runtime hands to onReplyUpdate.
SessionStart == [kind |-> "session-start", agentId |-> Self]

\* Runtime.dispatch(event) forwards the events with a kind field to
\* onReplyUpdate.
Forwarded(event) == "kind" \in DOMAIN event

\* The events that onReplyUpdate has been called with: by the constructor
\* of Runtime, by the agent (its onUpdate) and by Runtime.dispatch for the
\* events of the two adapters.
onReplyUpdate ==
  {SessionStart}
    \cup Range(emitted)
    \cup UNION {{e \in Range(calls[c].events) : Forwarded(e)} : c \in CallId}
    \cup {e \in {toolResults[k].evt : k \in 1..Len(toolResults)} :
            Forwarded(e)}

\* The agent, the ToolsAdapter and the LlmAdapter as constructed.
AgentUnused == turns = 0 /\ others = 0
ToolsUnused == registry = {} /\ effs = <<>>
LlmUnused == \A c \in CallId : calls[c].mode = "none"
SchedulerUnused == status = "idle" /\ startResult = "none" /\ enqueued = 0

\* The output of the port in a session.
UiText == <<(<<"a">>), (<<" ", "b">>)>>

UiInit ==
  /\ status = "idle"
  /\ queue = EmptyQueue
  /\ notifier = NotifierInit
  /\ loops = [i \in LoopId |-> Loop("unused", FALSE, "ok")]
  /\ jobs = <<>>
  /\ ran = [t \in TaskId |-> 0]
  /\ enqueued = 0
  /\ startResult = "none"
  /\ signals = 0
  /\ waited = "none"
  /\ AgentNew
  /\ port \in Port
  /\ RouterNew
  /\ ToolsNew
  /\ LlmNew(UiText)
  /\ FsNew
  /\ RuntimeNew

\* One source of UI events is exercised in a behaviour: the agent with its
\* model calls, the LlmAdapter with the scheduler, or the ToolsAdapter with
\* the scheduler.
UiNext ==
  \/ SchedulerUnused /\ ToolsUnused /\ LlmUnused /\ AgentNext
  \/ AgentUnused /\ ToolsUnused /\ LlmNext
  \/ AgentUnused /\ LlmUnused /\ ToolsNext

UiSpec == UiInit /\ [][UiNext]_vars

(* ---- Runtime: start and stop ---- *)

\* Runtime.start(): the promise that scheduler.start() returns is dropped.
RuntimeStart ==
  /\ IF rtStatus = "running"
       THEN UNCHANGED <<schedulerVars, rtStatus>>
       ELSE /\ start
            /\ rtStatus' = "running"
  /\ UNCHANGED notRuntime

\* Runtime.stop()
RuntimeStop ==
  /\ IF rtStatus # "running"
       THEN UNCHANGED <<schedulerVars, rtStatus>>
       ELSE /\ stop
            /\ rtStatus' = "idle"
  /\ UNCHANGED notRuntime

\* The runtime started and stopped by its owner, with the tasks that the
\* adapters enqueue and the run loop of its scheduler.
RuntimeNext ==
  \/ RuntimeStart
  \/ RuntimeStop
  \/ \E l \in Lane, p \in Prio : Enqueue(l, p)
  \/ \E i \in LoopId : AfterTick(i)
  \/ \E i \in LoopId : AfterWait(i)
  \/ \E i \in LoopId, run \in Run \ {"throw"} : TaskSettle(i, run)
  \/ \E i \in LoopId : AfterRun(i)

RuntimeSpec == Init /\ [][RuntimeNext]_vars

(***************************************************************************)
(* Properties                                                              *)
(***************************************************************************)

\* Task t sits in one of the six queues.
Queued(t) ==
  \E l \in Lane, p \in Prio : \E k \in 1..Len(queue[l][p]) : queue[l][p][k] = t

\* Activation i is between its tick() finding every queue empty and its
\* call of notifier.wait().
InGap(i) ==
  /\ loops[i].pc = "ticked"
  /\ ~loops[i].worked
  /\ status = "running"

\* Activation i calls notifier.wait() in this step.
Waits(i) ==
  /\ InGap(i)
  /\ loops'[i] # loops[i]

\* This step is a call of enqueue() or of stop(), the callers of signal().
Signals ==
  \/ enqueued' # enqueued
  \/ status # "stopped" /\ status' = "stopped"

\* C1 -- No lost wake-up: a task that is in a queue while an activation of
\* the run loop is between its empty tick and its wait() (it was enqueued
\* in that gap) is eventually run, unless the scheduler is stopped; tasks
\* terminate and continuations run (FairSpec).
C1_NoLostWakeup ==
  \A t \in TaskId :
    (Queued(t) /\ \E i \in LoopId : InGap(i)) ~> (ran[t] > 0 \/ status = "stopped")

\* The race of C1: enqueue() has signalled with no waiter while the loop is
\* in the gap, so the signal is held as pending.
C1_Witness ==
  \E i \in LoopId, t \in TaskId :
    /\ InGap(i)
    /\ Queued(t)
    /\ notifier.hasPendingSignal
    /\ Len(notifier.waitQueue) = 0

\* C2 -- Single pending slot: the flag is set exactly when at least one
\* signal() found no waiter since the last wait(), however many there were;
\* a wait() then resolves at once and clears the slot, and a wait() with no
\* such signal suspends its caller.
C2_SinglePendingSlot ==
  /\ [](notifier.hasPendingSignal <=> signals >= 1)
  /\ [][\A i \in LoopId : Waits(i) =>
          /\ signals >= 1 =>
               /\ loops'[i].pc = "passed"
               /\ ~notifier'.hasPendingSignal
               /\ notifier'.waitQueue = notifier.waitQueue
               /\ signals' = 0
          /\ signals = 0 =>
               /\ loops'[i].pc = "waiting"
               /\ notifier'.waitQueue = Append(notifier.waitQueue, i)
               /\ ~notifier'.hasPendingSignal]_vars

\* A wait() resolved at once on a pending signal and the next wait(), with
\* no signal in between, suspended its caller.
C2_Witness ==
  /\ waited = "passed, suspended"
  /\ Len(notifier.waitQueue) = 1
  /\ ~notifier.hasPendingSignal

\* C3 -- signal() resumes every registered waiter and empties the waiter
\* set; it sets the pending flag only when no waiter was registered, so
\* the flag is never set while or after a waiter is resumed by that signal.
C3_SignalResumesAll ==
  /\ [](Range(notifier.waitQueue) = {i \in LoopId : loops[i].pc = "waiting"})
  /\ [](notifier.hasPendingSignal => Len(notifier.waitQueue) = 0)
  /\ [][Signals =>
          /\ \A i \in Range(notifier.waitQueue) : loops'[i].pc = "resumed"
          /\ Len(notifier'.waitQueue) = 0
          /\ notifier'.hasPendingSignal =
               (notifier.hasPendingSignal \/ Len(notifier.waitQueue) = 0)]_vars

\* One signal() resumed two waiters and left no pending signal.
C3_Witness ==
  /\ \A i \in {1, 2} : loops[i].pc = "resumed"
  /\ Len(notifier.waitQueue) = 0
  /\ ~notifier.hasPendingSignal

\* Task t is dequeued and its run() is called in this step.
Started(t) == ran'[t] > ran[t]

\* The queues of lane l hold no task.
LaneEmpty(q, l) == \A p \in Prio : Len(q[l][p]) = 0

\* The dequeue order the scheduler documents, as (lane, priority) cells.
DequeueOrder ==
  << <<"domain", "high">>, <<"domain", "medium">>, <<"domain", "low">>,
     <<"ui", "high">>, <<"ui", "medium">>, <<"ui", "low">> >>

\* C4 -- Priority ordering: every step that dequeues a task takes the head
\* of the first non-empty cell in the order domain/high, domain/medium,
\* domain/low, ui/high, ui/medium, ui/low, and removes just that task.
C4_PriorityOrdering ==
  [][\A t \in TaskId : Started(t) =>
       \E k \in 1..Len(DequeueOrder) :
         LET l == DequeueOrder[k][1]
             p == DequeueOrder[k][2]
         IN /\ Len(queue[l][p]) > 0
            /\ \A j \in 1..(k - 1) :
                 Len(queue[DequeueOrder[j][1]][DequeueOrder[j][2]]) = 0
            /\ Head(queue[l][p]) = t
            /\ queue' = [queue EXCEPT ![l][p] = Tail(@)]]_vars

\* Tasks A = 1 (low), B = 2 (high), C = 3 (medium) were enqueued on one
\* lane in that order; B was dequeued first and runs while C and A wait.
C4_Witness ==
  \E i \in LoopId, l \in Lane :
    /\ loops[i].pc = "task"
    /\ loops[i].task = 2
    /\ queue[l]["low"] = <<1>>
    /\ queue[l]["medium"] = <<3>>
    /\ queue[l]["high"] = <<>>
    /\ ran[1] = 0 /\ ran[2] = 1 /\ ran[3] = 0

\* C5 -- FIFO within a cell: task ids are given in enqueue order, and a
\* step that dequeues task t leaves no task enqueued earlier in the queue
\* t was in, so tasks of one queue start in the order they were enqueued.
C5_FifoWithinCell ==
  [][\A t \in TaskId : Started(t) =>
       \A l \in Lane, p \in Prio :
         t \in Range(queue[l][p]) =>
           /\ \A u \in Range(queue[l][p]) : t <= u
           /\ t \notin Range(queue'[l][p])]_vars

\* The first task was dequeued and runs while the two tasks enqueued after
\* it into one queue wait there in enqueue order.
C5_Witness ==
  \E i \in LoopId, l \in Lane, p \in Prio :
    /\ loops[i].pc = "task"
    /\ loops[i].task = 1
    /\ queue[l][p] = <<2, 3>>
    /\ ran[1] = 1 /\ ran[2] = 0 /\ ran[3] = 0

\* The lane whose queues hold task t.
LaneOf(q, t) == CHOOSE l \in Lane : \E p \in Prio : t \in Range(q[l][p])

\* The index of the priority of the queue that holds task t.
PrioOf(q, t) ==
  CHOOSE j \in 1..Len(PRIOS) : \E l \in Lane : t \in Range(q[l][PRIOS[j]])

\* C6 as stated -- Lane independence: no dequeue takes a task while the
\* other lane holds a task that was enqueued earlier at the same or a
\* higher priority (a queued task is not kept waiting by the other lane).
C6_LaneIndependence ==
  [][\A t \in TaskId : Started(t) =>
       \A u \in TaskId :
         (Queued(u) /\ LaneOf(queue, u) # LaneOf(queue, t) /\ u < t)
           => PrioOf(queue, u) > PrioOf(queue, t)]_vars

\* C6 -- Lane order: a dequeue takes a domain task whenever one is queued,
\* so queued ui tasks never overtake or reorder domain tasks; the task
\* taken is the head of the highest-priority non-empty queue of its lane,
\* whatever the other lane holds; and enqueue() changes only its own queue.
C6_LaneOrder ==
  /\ [][\A t \in TaskId : Started(t) =>
          LET l == LaneOf(queue, t) IN
          /\ ~LaneEmpty(queue, "domain") => l = "domain"
          /\ \A j \in 1..Len(PRIOS) :
               j < PrioOf(queue, t) => Len(queue[l][PRIOS[j]]) = 0
          /\ \A m \in Lane \ {l} : queue'[m] = queue[m]]_vars
  /\ [][enqueued' # enqueued =>
          \E l \in Lane, p \in Prio :
            queue' = [queue EXCEPT ![l][p] = Append(@, enqueued')]]_vars

\* A domain task enqueued second at low priority runs while the ui task
\* enqueued first at high priority is still queued.
C6_Witness ==
  \E i \in LoopId :
    /\ loops[i].pc = "task"
    /\ loops[i].task = 2
    /\ queue["ui"]["high"] = <<1>>
    /\ LaneEmpty(queue, "domain")
    /\ ran[1] = 0 /\ ran[2] = 1

\* C7 -- Stopped is terminal: from a stopped scheduler every step leaves
\* the status stopped, a start() call fails, and no new activation of the
\* run loop is entered.
C7_StoppedTerminal ==
  [][status = "stopped" =>
       /\ status' = "stopped"
       /\ startResult' # startResult => startResult' = "threw"
       /\ \A i \in LoopId : loops[i].pc = "unused" => loops'[i].pc = "unused"]_vars

\* After stop() a suspended activation woke up and ended, a task was
\* enqueued, and start() was called and failed.
C7_Witness ==
  /\ status = "stopped"
  /\ startResult = "threw"
  /\ \E i \in LoopId : loops[i].pc = "done"
  /\ \E t \in TaskId : Queued(t)

\* C8 -- No task after stop: from a stopped scheduler no step dequeues or
\* starts a task, whether it is an activation waking from the Notifier or
\* one returning from a running task.
C8_NoTaskAfterStop ==
  [][status = "stopped" =>
       /\ ran' = ran
       /\ \A l \in Lane, p \in Prio : Len(queue'[l][p]) >= Len(queue[l][p])]_vars

\* After stop() an activation has ended although a task that never ran is
\* still queued; an earlier task did run.
C8_Witness ==
  /\ status = "stopped"
  /\ \E i \in LoopId : loops[i].pc = "done"
  /\ \E t \in TaskId : Queued(t) /\ ran[t] = 0
  /\ \E t \in TaskId : ran[t] > 0

\* C9 as stated -- Single-flight run loop: at most one activation of the
\* run loop is live, and at most one task is between its start and its
\* completion.
C9_SingleFlight ==
  /\ Cardinality({i \in LoopId : loops[i].pc \notin {"unused", "done"}}) <= 1
  /\ Cardinality({i \in LoopId : loops[i].pc = "task"}) <= 1

\* Activation i is back from a task that failed.
Failed(i) ==
  /\ loops[i].pc = "ticked"
  /\ loops[i].worked
  /\ loops[i].run \in {"reject", "throw"}

\* C10 -- Task failure is isolated: a run() that throws synchronously is
\* caught in the step that called it and one that rejects in the next step
\* of its activation; either way tick reports work done, the status and
\* the queues are as without the failure, and every task still queued is
\* run afterwards unless the scheduler is stopped.
C10_FailureIsolated ==
  /\ [][\A t \in TaskId : Started(t) =>
          /\ status' = "running"
          /\ \E i \in LoopId :
               \/ loops'[i].pc = "task" /\ loops'[i].task = t
               \/ Failed(i)' /\ loops'[i].run = "throw" /\ i \in Range(jobs')]_vars
  /\ [][\A i \in LoopId :
          (loops[i].pc = "settled" /\ loops'[i] # loops[i]) =>
            /\ loops'[i] = Loop("ticked", TRUE, loops[i].run)
            /\ i \in Range(jobs')
            /\ status' = status
            /\ queue' = queue]_vars
  /\ \A t \in TaskId :
       (Queued(t) /\ \E i \in LoopId : Failed(i))
         ~> (ran[t] > 0 \/ status = "stopped")

\* An activation is back from a failed task with the scheduler running and
\* a task still queued.
C10_Witness ==
  \E i \in LoopId, t \in TaskId :
    /\ Failed(i)
    /\ status = "running"
    /\ Queued(t)
    /\ ran[t] = 0

\* The number of places task t takes in the six queues.
Occurrences(t) ==
  Cardinality({c \in Lane \X Prio \X (1..MaxTasks) :
                 /\ c[3] <= Len(queue[c[1]][c[2]])
                 /\ queue[c[1]][c[2]][c[3]] = t})

\* C11 -- Run-once: a task is in at most one place of the queues, it is
\* started at most once, and once started it is in no queue (it was
\* removed before its run() was called and is never queued again), also
\* when it failed.
C11_RunOnce ==
  \A t \in TaskId :
    /\ ran[t] <= 1
    /\ Occurrences(t) <= 1
    /\ ran[t] = 1 => Occurrences(t) = 0
    /\ t > enqueued => ran[t] = 0 /\ Occurrences(t) = 0

\* The only task enqueued was started once and failed; the activation is
\* back in its loop and every queue is empty.
C11_Witness ==
  /\ enqueued = 1
  /\ ran[1] = 1
  /\ \E i \in LoopId : Failed(i) /\ status = "running"
  /\ queue = EmptyQueue

\* No call of loop() is suspended at a model call.
Idle == \A s \in StrandId : strands[s].pc = "free"

\* The behaviour so far is one user turn in which every model call resolved
\* with the usual reply of port p and nothing else happened: no interrupt(),
\* no LlmError event, no second UserInput.
OneTurnOf(p) ==
  /\ port = p
  /\ turns = 1
  /\ others = 0

\* C12 -- Repair bounded termination: no planning round makes more than
\* MAX_REPAIRS + 1 model calls; and when every reply of the model port fails
\* to parse or validate, the round of a user turn increments the step
\* counter once, makes exactly MAX_REPAIRS + 1 calls, then emits an error
\* event of phase planner and planning-stop with reason error, after which
\* no model call is pending.
C12_RepairBounded ==
  /\ \A s \in StrandId : strands[s].calls <= MAX_REPAIRS + 1
  /\ OneTurnOf("invalid") =>
       /\ steps = 1
       /\ turnCalls <= MAX_REPAIRS + 1
       /\ Idle <=> stops[1] # <<>>
       /\ Idle =>
            /\ turnCalls = MAX_REPAIRS + 1
            /\ stops[1] = <<"error">>
            /\ emitted = <<UI("error", NullReq, "planner"),
                           UI("planning-stop", 1, "error")>>
            /\ currentReqId = NullReq

\* The round has ended after its third invalid reply.
C12_Witness ==
  /\ OneTurnOf("invalid")
  /\ Idle
  /\ turnCalls = MAX_REPAIRS + 1
  /\ lastReply = "invalid"
  /\ stops[1] = <<"error">>

\* C13 -- Step budget: when every reply of the model port is a valid step
\* message, a user turn makes one model call per planning round, MAX_STEPS
\* rounds in all, and then emits planning-stop with reason max-steps
\* without a further model call.
C13_StepBudget ==
  OneTurnOf("step") =>
    /\ steps = turnCalls
    /\ steps <= MAX_STEPS
    /\ \A s \in StrandId : strands[s].calls <= 1
    /\ Idle <=> stops[1] # <<>>
    /\ Idle =>
         /\ steps = MAX_STEPS
         /\ stops[1] = <<"max-steps">>
         /\ emitted = <<UI("step", NullReq, ""),
                        UI("status", NullReq, "max-steps"),
                        UI("planning-stop", 1, "max-steps")>>
         /\ currentReqId = NullReq

\* The turn has ended on its budget.
C13_Witness ==
  /\ OneTurnOf("step")
  /\ Idle
  /\ steps = MAX_STEPS
  /\ turnCalls = MAX_STEPS
  /\ lastReply = "step"
  /\ stops[1] = <<"max-steps">>

\* This step enters loop() at the top of a planning round that follows
\* another: after a step or deliverable message, or on a ToolResult event.
\* (The round that a UserInput begins is entered with the flag cleared.)
RoundBegins ==
  \/ lastReply' \in {"step", "deliverable"}
  \/ effects' = effects - 1

\* C14 -- Interrupt boundary: a planning round that begins while the
\* interrupted flag is set makes no model call and emits planning-stop with
\* reason interrupted.
C14_InterruptBoundary ==
  [][(interrupted /\ RoundBegins) =>
       /\ turnCalls' = turnCalls
       /\ \A s \in StrandId : strands[s].pc = "free" => strands'[s].pc = "free"
       /\ \E r \in ReqId :
            UI("planning-stop", r, "interrupted") \in Range(emitted')]_vars

\* C15 -- Every user turn that has emitted planning-start eventually emits
\* a planning-stop that carries the same request id, provided model calls
\* settle and tool results arrive (AgentFairSpec).
C15_TurnReachesStop ==
  \A r \in ReqId : (started[r] > 0) ~> (stops[r] # <<>>)

\* Strand s is at a model call that this step made.
NewCall(s) ==
  /\ strands'[s].pc # "free"
  /\ strands'[s] # strands[s]

Last(seq) == seq[Len(seq)]

\* The transcript entry of a ToolResult event.
IsToolEntry(entry) ==
  /\ entry.role = "user"
  /\ entry.content \in {"TOOL ok", "TOOL error"}

RECURSIVE LastRegistered(_, _)
LastRegistered(regs, id) ==
  IF regs = <<>> THEN NoActor
  ELSE IF IdOf(regs[Len(regs)]) = id THEN regs[Len(regs)]
  ELSE LastRegistered(SubSeq(regs, 1, Len(regs) - 1), id)

\* This step is a call of dispatch(); Dispatched is its log record.
Dispatches == Len(dispatchLog') = Len(dispatchLog) + 1
Dispatched == dispatchLog'[Len(dispatchLog')]

\* C18 -- A dispatch() of an event whose target no register() call has
\* named ends by throwing, and calls the on() of no actor.
C18_UnknownTargetThrows ==
  [][(/\ Dispatches
      /\ "target" \in DOMAIN Dispatched.evt
      /\ LastRegistered(registered, Dispatched.evt.target) = NoActor)
       => /\ Dispatched.outcome = "threw"
          /\ handled' = handled]_vars

\* A dispatch() to an id that was never registered, with the other id
\* registered, has thrown.
C18_Witness ==
  /\ dispatchLog # <<>>
  /\ registered # <<>>
  /\ LET d == dispatchLog[Len(dispatchLog)] IN
       /\ "target" \in DOMAIN d.evt
       /\ LastRegistered(registered, d.evt.target) = NoActor
       /\ d.outcome = "threw"
  /\ \A k \in Inst : handled[k] = <<>>

\* C19 -- Router delivery: a dispatch() of an event whose target has been
\* registered returns after calling on() with that event once, on the
\* instance most recently registered under the target id and on no other;
\* a dispatch() of an event without a target field returns and calls no
\* on() at all.
C19_RouterDelivery ==
  [][Dispatches =>
       IF "target" \notin DOMAIN Dispatched.evt
         THEN /\ Dispatched.outcome = "returned"
              /\ handled' = handled
       ELSE LET k == LastRegistered(registered, Dispatched.evt.target) IN
              k # NoActor =>
                /\ Dispatched.outcome = "returned"
                /\ handled' = [handled EXCEPT ![k] = Append(@, Dispatched.evt)]]_vars

\* Two instances were registered under one id and an event for that id was
\* delivered to the second; an event without a target was dispatched too.
C19_Witness ==
  /\ Len(registered) >= 2
  /\ \E a, b \in 1..Len(registered) :
       /\ a < b
       /\ registered[a] # registered[b]
       /\ IdOf(registered[a]) = IdOf(registered[b])
       /\ LastRegistered(registered, IdOf(registered[b])) = registered[b]
       /\ handled[registered[b]] # <<>>
       /\ handled[registered[a]] = <<>>
  /\ \E n \in 1..Len(dispatchLog) : "target" \notin DOMAIN dispatchLog[n].evt

\* The positions in toolResults of the events that answer effect e, and the
\* tasks enqueued for it.
ResultsFor(e) == {n \in 1..Len(toolResults) : toolResults[n].eff = e}
TasksFor(e) == {t \in TaskId : taskEff[t] = e}

\* This step is a call of submit(); Submitted is the effect passed.
Submits == Len(effs') = Len(effs) + 1
Submitted == effs'[Len(effs')]

\* C16 -- Unknown tool: a submit() of a ToolCall effect whose tool name is
\* not in the registry passes, within that call, one ToolResult with ok
\* false and the effect's target and tool to dispatch and enqueues nothing;
\* no second event ever answers that effect.
C16_UnknownTool ==
  /\ [][(Submits /\ Submitted.kind = "ToolCall" /\ Submitted.tool \notin registry)
          => /\ Len(toolResults') = Len(toolResults) + 1
             /\ LET r == toolResults'[Len(toolResults')] IN
                  /\ r.eff = Len(effs')
                  /\ r.evt.type = "ToolResult"
                  /\ r.evt.ok = FALSE
                  /\ r.evt.target = Submitted.target
                  /\ r.evt.tool = Submitted.tool
             /\ enqueued' = enqueued
             /\ queue' = queue
             /\ taskEff' = taskEff]_vars
  /\ [](\A e \in 1..Len(effs) :
          (effs[e].kind = "ToolCall" /\ TasksFor(e) = {})
            => Cardinality(ResultsFor(e)) = 1)

\* An effect for a tool that no port has was answered while another tool was
\* registered and the scheduler was running, and nothing was enqueued.
C16_Witness ==
  /\ registry # {}
  /\ status = "running"
  /\ enqueued = 0
  /\ \E e \in 1..Len(effs) :
       /\ effs[e].kind = "ToolCall"
       /\ effs[e].tool \notin registry
       /\ \E n \in ResultsFor(e) : toolResults[n].evt.ok = FALSE

\* Effect e was enqueued and a run loop exists to take it.
Pending(e) ==
  /\ TasksFor(e) # {}
  /\ \E i \in LoopId : loops[i].pc \notin {"unused", "done"}

\* C17 -- Effect round-trip: a submit() of a ToolCall effect whose tool is
\* registered enqueues one task, at the tail of domain/medium, and
\* dispatches nothing itself; the effect is answered by at most one
\* ToolResult, dispatched when its port call has resolved, with the
\* effect's target and tool and the ok and data of the port's result; and
\* once a run loop exists the answer comes, unless the scheduler is stopped
\* (ToolsFairSpec).
C17_RoundTrip ==
  /\ [][(Submits /\ Submitted.kind = "ToolCall" /\ Submitted.tool \in registry)
          => /\ enqueued' = enqueued + 1
             /\ queue' = Push(queue, "domain", "medium", enqueued')
             /\ taskEff' = [taskEff EXCEPT ![enqueued'] = Len(effs')]
             /\ toolResults' = toolResults]_vars
  /\ [](\A e \in 1..Len(effs) :
          TasksFor(e) # {} =>
            /\ Cardinality(TasksFor(e)) = 1
            /\ IF e \in DOMAIN portOut
                 THEN /\ Cardinality(ResultsFor(e)) = 1
                      /\ \A n \in ResultsFor(e) :
                           toolResults[n].evt =
                             [type |-> "ToolResult", target |-> effs[e].target,
                              tool |-> effs[e].tool, ok |-> portOut[e].ok,
                              data |-> portOut[e].data]
                 ELSE ResultsFor(e) = {})
  /\ \A e \in EffId :
       Pending(e) ~> (ResultsFor(e) # {} \/ status = "stopped")

\* Two effects for registered tools were answered, one with a failure of
\* its port and one with a success.
C17_Witness ==
  /\ Len(effs) = 2
  /\ \A e \in 1..2 : TasksFor(e) # {} /\ e \in DOMAIN portOut
  /\ portOut[1].ok /\ ~portOut[2].ok
  /\ \E n \in ResultsFor(1) : toolResults[n].evt.ok
  /\ \E n \in ResultsFor(2) : ~toolResults[n].evt.ok

\* Activation i is entered by start() in this step.
Enters(i) == loops[i].pc = "unused" /\ loops'[i].pc # "unused"

\* Activation i continues after its wait() in this step.
Wakes(i) == loops[i].pc \in {"passed", "resumed"} /\ loops'[i] # loops[i]

\* The promise of the task of activation i settles, or tick() continues
\* after it, in this step.
Completes(i) ==
  \/ loops[i].pc = "task" /\ loops'[i].pc = "settled"
  \/ loops[i].pc = "settled" /\ loops'[i].pc # "settled"

\* C29 -- The status changes only along these edges: idle to running, in a
\* step that enters start() or continues a run loop after its wait();
\* running to idle, in the step of a run loop whose tick() has just found
\* every queue empty; and any status to stopped, in a step that touches no
\* queue and runs no task (stop()). A step that enqueues, or in which a
\* task's promise settles or tick() continues after it, leaves the status
\* alone.
C29_StatusEdges ==
  [][/\ status' # status =>
          \/ /\ status = "idle" /\ status' = "running"
             /\ \E i \in LoopId : Enters(i) \/ Wakes(i)
          \/ /\ status = "running" /\ status' = "idle"
             /\ \E i \in LoopId : Waits(i)
          \/ /\ status' = "stopped"
             /\ UNCHANGED <<queue, ran, enqueued>>
     /\ (enqueued' # enqueued \/ \E i \in LoopId : Completes(i))
          => status' = status]_vars

\* The scheduler was started, ran a task that was enqueued while it was
\* idle, and has gone back to idle with its loop waiting.
C29_Witness ==
  /\ status = "idle"
  /\ enqueued = 1
  /\ ran[1] = 1
  /\ waited = "suspended"
  /\ \E i \in LoopId : loops[i].pc = "waiting"

\* This step is a call of enqueue() with the given lane and priority.
Enqueues(l, p) ==
  /\ enqueued' = enqueued + 1
  /\ Len(queue'[l][p]) > Len(queue[l][p])

\* C30 -- enqueue() appends the task at the tail of the targeted queue and
\* leaves the five other queues, the status and the run counts as they
\* are; it then signals the Notifier whatever the status is: the waiters
\* are resumed, or the signal is kept as pending when there is none. The
\* call is one step that can be taken in every state: it neither suspends
\* nor throws.
C30_EnqueueFrame ==
  /\ [][\A l \in Lane, p \in Prio :
          Enqueues(l, p) =>
            /\ queue' = [queue EXCEPT ![l][p] = Append(@, enqueued')]
            /\ status' = status
            /\ ran' = ran
            /\ notifier'.waitQueue = <<>>
            /\ notifier'.hasPendingSignal =
                 (notifier.hasPendingSignal \/ Len(notifier.waitQueue) = 0)
            /\ \A i \in Range(notifier.waitQueue) : loops'[i].pc = "resumed"]_vars
  /\ [](enqueued < MaxTasks =>
          \A l \in Lane, p \in Prio : ENABLED Enqueue(l, p))

\* Tasks were enqueued on two queues of a stopped scheduler, behind one
\* that was enqueued before the stop, and the signal is pending.
C30_Witness ==
  /\ status = "stopped"
  /\ enqueued = 3
  /\ queue["ui"]["low"] = <<1, 3>>
  /\ queue["domain"]["high"] = <<2>>
  /\ notifier.hasPendingSignal

\* The model call that this step continues from resolved with a text that
\* is not JSON or does not satisfy the schema of a turn.
RejectedReply ==
  /\ lastReply' \in Raw
  /\ ~(/\ Json(lastReply')
       /\ Doc(lastReply').schema_version = 1
       /\ Doc(lastReply').type \in {"step", "action", "deliverable", "final"}
       /\ Doc(lastReply').step \in Nat \ {0})

\* C21 -- A model reply that is not JSON or does not satisfy the PlannerTurn
\* schema is not acted on: the step that receives it appends no assistant
\* entry to the transcript (at most the user entry of a repair request),
\* passes no step, action, deliverable or final event to onUpdate and
\* submits no effect; and every assistant entry of the transcript is a
\* well-formed message.
C21_OnlyValidTurns ==
  /\ [][RejectedReply =>
          /\ convo' \in {convo, Append(convo, Entry("user", "repair"))}
          /\ \A n \in 1..Len(emitted') :
               emitted'[n].kind \notin {"step", "action", "deliverable", "final"}
          /\ submitted' = <<>>
          /\ effects' = effects]_vars
  /\ [](\A n \in 1..Len(convo) :
          convo[n].role = "assistant" => convo[n].content \in MsgType)

\* Replies that are JSON but fail the schema were rejected, the last one in
\* the final repair iteration, and nothing was recorded for them.
C21_Witness ==
  /\ lastReply \in {"v2", "step0", "note"}
  /\ turns = 1
  /\ Idle
  /\ stops[1] = <<"error">>
  /\ \A n \in 1..Len(convo) : convo[n].role # "assistant"

\* C22 -- Transport faults are not retried: the step in which a model call
\* (the call of a round or a repair call) fails passes one error event and
\* the planning-stop of the turn, with reason error, to onUpdate and makes
\* no model call; and no model call is made for a turn after its
\* planning-stop with reason error.
C22_FaultStopsTurn ==
  [][/\ lastReply' = "fail" =>
          /\ \E r \in ReqId :
               emitted' = <<UI("error", NullReq, "planner"),
                            UI("planning-stop", r, "error")>>
          /\ \A s \in StrandId : ~NewCall(s)
     /\ (turns' = turns /\ turns > 0 /\ "error" \in Range(stops[turns]))
          => \A s \in StrandId : ~NewCall(s)]_vars

\* C23 -- An LlmError event that arrives while a turn is planning makes the
\* agent pass an error event and the planning-stop of that turn, with
\* reason error, to onUpdate, and the turn stops: from then on no model call
\* is made and no effect is submitted for it.
C23_LlmErrorStopsTurn ==
  [][/\ halted' # halted =>
          emitted' = <<UI("error", NullReq, "llm"),
                       UI("planning-stop", currentReqId, "error")>>
     /\ (turns' = turns /\ turns \in halted)
          => /\ \A s \in StrandId : ~NewCall(s)
             /\ submitted' = <<>>]_vars

\* Event e is the UI event of the given kind, or the internal event of the
\* given type.
IsKind(e, kind) == "kind" \in DOMAIN e /\ e.kind = kind
IsType(e, type) == "type" \in DOMAIN e /\ e.type = type

IsPrefix(s, t) == Len(s) <= Len(t) /\ s = SubSeq(t, 1, Len(s))

\* The events of a streaming call c with target tg whose port yields the
\* chunks cs and ends: the order the claim states.
RECURSIVE PerChunk(_, _, _)
PerChunk(c, tg, cs) ==
  IF cs = <<>> THEN <<>>
  ELSE <<[type |-> "TokenChunk", target |-> tg, reqId |-> c, text |-> Head(cs)],
         [kind |-> "stream-token", target |-> tg, token |-> Head(cs)]>>
         \o PerChunk(c, tg, Tail(cs))

StreamOrder(c, tg, cs) ==
  <<[kind |-> "llm-start", target |-> tg, requestId |-> c]>>
    \o PerChunk(c, tg, cs)
    \o <<[kind |-> "stream-done", target |-> tg],
         [type |-> "LlmComplete", target |-> tg, reqId |-> c],
         [kind |-> "llm-end", target |-> tg, requestId |-> c,
          tokens |-> Len(cs)]>>

\* The iteration of call c is over: the generator returned or threw.
Over(c) == calls[c].pos = Len(portText) + 1

\* The generator of call c threw.
Faulted(c) ==
  \/ \E n \in 1..Len(calls[c].events) : IsType(calls[c].events[n], "LlmError")
  \/ calls[c].outcome = "rejected"

\* C24 -- Streaming event order: the events that a streaming call whose
\* port yields c1..cn and ends has passed to dispatch are at any time a
\* prefix of, and in the end equal to: llm-start (dispatched in the step
\* that enqueues the task), TokenChunk and stream-token for c1, ..., for
\* cn, stream-done, LlmComplete, llm-end with n tokens.
C24_StreamOrder ==
  \A c \in CallId :
    (calls[c].mode = "stream" /\ ~Faulted(c)) =>
      LET order == StreamOrder(c, calls[c].target, portText) IN
        /\ calls[c].events # <<>>
        /\ IsPrefix(calls[c].events, order)
        /\ Over(c) => calls[c].events = order
        /\ ~Over(c) => Len(calls[c].events) = 1 + 2 * calls[c].pos

\* A streaming call over two chunks has ended.
C24_Witness ==
  \E c \in CallId :
    /\ calls[c].mode = "stream"
    /\ Len(portText) = 2
    /\ portText[1] # portText[2]
    /\ Over(c)
    /\ ~Faulted(c)
    /\ Len(calls[c].events) = 8

\* The llm-end events among the events of call c.
Ends(c) ==
  {n \in 1..Len(calls[c].events) : IsKind(calls[c].events[n], "llm-end")}

\* The task of call c is enqueued and a run loop exists to take it.
Awaited25(c) ==
  /\ calls[c].mode # "none"
  /\ \E i \in LoopId : loops[i].pc \notin {"unused", "done"}

\* C25 -- The UI stream never stays open: a call of run() or runOnce()
\* dispatches llm-start once, first, and llm-end at most once, last, with
\* the requestId of its llm-start; the llm-end is there as soon as the
\* iteration over the port is over, whether the generator returned or
\* threw; a streaming call whose generator threw ends with LlmError,
\* stream-done, llm-end; and once a run loop exists every call gets its
\* llm-end, unless the scheduler is stopped (LlmFairSpec).
C25_StreamCloses ==
  /\ [](\A c \in CallId :
          calls[c].mode # "none" =>
            LET ev == calls[c].events IN
              /\ IsKind(ev[1], "llm-start")
              /\ \A n \in 2..Len(ev) : ~IsKind(ev[n], "llm-start")
              /\ Cardinality(Ends(c)) = IF Over(c) THEN 1 ELSE 0
              /\ \A n \in Ends(c) :
                   n = Len(ev) /\ ev[n].requestId = ev[1].requestId
              /\ (calls[c].mode = "stream" /\ Over(c) /\ Faulted(c)) =>
                   /\ Len(ev) >= 4
                   /\ IsType(ev[Len(ev) - 2], "LlmError")
                   /\ IsKind(ev[Len(ev) - 1], "stream-done"))
  /\ \A c \in CallId :
       Awaited25(c) ~> (Ends(c) # {} \/ status = "stopped")

\* A streaming call failed after its first chunk and a non-streaming call
\* was rejected; both have their llm-end.
C25_Witness ==
  \E c, d \in CallId :
    /\ calls[c].mode = "stream" /\ Faulted(c) /\ Len(calls[c].events) = 6
    /\ calls[d].mode = "once" /\ calls[d].outcome = "rejected"
    /\ Ends(c) # {} /\ Ends(d) # {}

\* The tokens of the stream-token events among evs, concatenated in order.
RECURSIVE Tokens(_)
Tokens(evs) ==
  IF evs = <<>> THEN <<>>
  ELSE (IF IsKind(Head(evs), "stream-token") THEN Head(evs).token ELSE <<>>)
         \o Tokens(Tail(evs))

\* C26 -- Streaming completeness: when a streaming call and a non-streaming
\* call of the same port both succeed, the tokens of the stream-token
\* events of the one, concatenated in the order of emission, are the text
\* that the other returns.
C26_StreamComplete ==
  \A c, d \in CallId :
    (/\ calls[c].mode = "stream" /\ Over(c) /\ ~Faulted(c)
     /\ calls[d].mode = "once" /\ calls[d].outcome = "resolved")
      => Tokens(calls[c].events) = calls[d].buf

\* Both calls succeeded on an output of two chunks that are not empty.
C26_Witness ==
  \E c, d \in CallId :
    /\ calls[c].mode = "stream" /\ Over(c) /\ ~Faulted(c)
    /\ calls[d].mode = "once" /\ calls[d].outcome = "resolved"
    /\ Len(portText) = 2
    /\ portText[1] # <<>> /\ portText[2] # <<>> /\ portText[1] # portText[2]
    /\ Len(calls[d].buf) = 3

\* Inside the root directory: the root itself or a location below it.
Inside(loc) == root \in Prefixes(loc)

\* Where run() is asked to act: the resolved location of the path argument.
Asked(args) == resolve(join(root, args.path))

\* C27: whatever op and path FsPort.run is called with, the files it reads,
\* writes or appends to and the directories it creates are inside its root
\* directory, and a call whose path resolves to a location outside the root
\* resolves with ok = false, leaves the file system as it was and has had
\* no effect.
C27_Confined ==
  [][FsRun =>
       /\ \A e \in fsOut'.effects : Inside(e.at)
       /\ ("path" \in DOMAIN fsArgs /\ ~Inside(Asked(fsArgs))) =>
            /\ ~fsOut'.ok
            /\ fsOut'.effects = {}
            /\ disk' = disk]_vars

NoDuplicates(seq) == Cardinality(Range(seq)) = Len(seq)

\* C28: AGENT_UI_EVENT_KINDS is the list of the 15 documented kinds in
\* lifecycle order, without duplicates, and every event that the runtime,
\* the adapters and the agent hand to onReplyUpdate has a kind of that list.
C28_ClosedKinds ==
  /\ AGENT_UI_EVENT_KINDS = EXPECTED_KINDS
  /\ Len(AGENT_UI_EVENT_KINDS) = 15
  /\ NoDuplicates(AGENT_UI_EVENT_KINDS)
  /\ \A e \in onReplyUpdate : e.kind \in Range(AGENT_UI_EVENT_KINDS)

\* A streaming call has ended: every kind of the adapter has been shown.
C28_Witness ==
  \E c \in CallId :
    {"llm-start", "stream-token", "stream-done", "llm-end"}
      \subseteq {e.kind : e \in {x \in Range(calls[c].events) : Forwarded(x)}}

\* Strand s is at the model call of a planning round that this step began.
NewRound(s) == NewCall(s) /\ strands'[s].pc = "llm"

\* C31 -- The step counter: the handler of a UserInput sets it to 0 before
\* it begins the first round of the turn; every planning round that makes
\* its model call adds one to it, and nothing else changes it (a repair
\* call does not); and it is between 0 and MAX_STEPS in every state.
C31_StepCounter ==
  /\ [](steps \in 0..MAX_STEPS)
  /\ [][LET rounds == Cardinality({s \in StrandId : NewRound(s)})
        IN  /\ rounds <= 1
            /\ turns' # turns => steps' = 0 + rounds
            /\ turns' = turns => steps' = steps + rounds]_vars

\* In the second turn, after a turn that counted further: the first round
\* has made its call and a repair call, and the counter is 1.
C31_Witness ==
  /\ turns = 2
  /\ steps = 1
  /\ turnCalls = 2
  /\ \E s \in StrandId : strands[s].pc = "repair" /\ strands[s].calls = 2

\* The calls of loop() that are suspended at a model call.
InFlight == {s \in StrandId : strands[s].pc # "free"}

\* C32 -- At most one planning loop of the agent is in progress: whatever
\* events are delivered, at most one call of loop() is suspended at a model
\* call, so at most one model call of the agent is outstanding.
C32_SingleLoop == Cardinality(InFlight) <= 1

\* The turn of the latest UserInput has had its planning-stop.
Stopped == turns > 0 /\ stops[turns] # <<>>

\* C33 -- Once the planning-stop of a turn has been emitted the agent makes
\* no model call and submits no tool effect until the next UserInput event;
\* and a turn has at most one planning-stop for its planning-start.
C33_StopIsFinal ==
  /\ [](\A r \in ReqId : Len(stops[r]) <= started[r])
  /\ [][(Stopped /\ turns' = turns) =>
          /\ \A s \in StrandId : ~NewCall(s)
          /\ submitted' = <<>>]_vars

\* The activations of start() that entered the run loop.
Entrants == {i \in LoopId : loops[i].pc # "unused"}

\* C34 -- With one run loop (start() entered the loop once), whenever the
\* loop is registered as a waiter of the Notifier, all six queues are empty
\* and the status is idle.
C34_WaiterMeansEmpty ==
  Cardinality(Entrants) <= 1 =>
    \A i \in Range(notifier.waitQueue) :
      /\ queue = EmptyQueue
      /\ status = "idle"

\* The loop is suspended after it ran a task and passed one wait() on a
\* pending signal.
C34_Witness ==
  /\ Cardinality(Entrants) = 1
  /\ notifier.waitQueue # <<>>
  /\ ran[1] = 1
  /\ waited = "passed, suspended"

\* The run loop is suspended on the Notifier with nothing to do.
Quiet ==
  /\ status = "idle"
  /\ queue = EmptyQueue
  /\ Entrants # {}
  /\ \A i \in Entrants : loops[i].pc = "waiting" /\ i \in Range(notifier.waitQueue)

\* Activation i calls notifier.wait() in this step and the promise is
\* already resolved: a wake-up on a pending signal.
Passes(i) == Waits(i) /\ loops'[i].pc = "passed"

\* C35 -- Quiescence without spinning: with one run loop, tasks that
\* terminate and no stop(), the loop is from some point on suspended on the
\* Notifier with status idle and all queues empty, as soon as no enqueue()
\* follows; it leaves that state only through enqueue(), stop() or start();
\* and a wait() that resolved on a pending signal is not followed by
\* another such wake-up unless enqueue() or stop() signalled in between.
C35_Quiescence ==
  /\ <>[](\/ Entrants = {}
          \/ Cardinality(Entrants) > 1
          \/ status = "stopped"
          \/ Quiet)
  /\ [][(Quiet /\ ~Quiet') =>
          \/ enqueued' = enqueued + 1
          \/ status' = "stopped"
          \/ Entrants' # Entrants]_vars
  /\ [][\A i \in LoopId : waited = "passed" => ~Passes(i)]_vars

\* Every task has run and the loop is suspended, after one wake-up with
\* empty queues on the signal left by an enqueue() made while it ran.
C35_Witness ==
  /\ Quiet
  /\ Cardinality(Entrants) = 1
  /\ enqueued = MaxTasks
  /\ \A t \in TaskId : ran[t] = 1
  /\ waited = "passed, suspended"

\* C36 -- Whatever calls of Runtime.start() and Runtime.stop() are made,
\* whenever the status of the runtime is running the status of its
\* scheduler is not stopped.
C36_RunningMeansStartable == rtStatus = "running" => status # "stopped"

\* C37 -- The transcript is append-only: every step leaves the entries it
\* found in place and in order and adds at most one at the end (the text of
\* a UserInput, the result of a ToolResult, a repair request or the
\* accepted model message); and the first entry is always the system
\* prompt.
C37_AppendOnly ==
  /\ [](Len(convo) >= 1 /\ convo[1] = Entry("system", "SYSTEM"))
  /\ [][/\ IsPrefix(convo, convo')
        /\ Len(convo') <= Len(convo) + 1
        /\ turns' # turns => convo' = Append(convo, Entry("user", "input"))
        /\ effects' = effects - 1 =>
             /\ Len(convo') = Len(convo) + 1
             /\ IsToolEntry(Last(convo'))
        /\ lastReply' \in Raw =>
             convo' = Append(convo,
                             IF Valid(lastReply')
                               THEN Entry("assistant", lastReply')
                               ELSE Entry("user", "repair"))
               \/ (convo' = convo /\ ~Valid(lastReply'))
        /\ lastReply' = "fail" => convo' = convo]_vars

\* A transcript of two turns that holds entries of every origin.
C37_Witness ==
  /\ turns = 2
  /\ \E k \in 1..Len(convo) : convo[k] = Entry("user", "repair")
  /\ \E k \in 1..Len(convo) : convo[k].role = "assistant"
  /\ \E k \in 1..Len(convo) : IsToolEntry(convo[k])
  /\ Len(convo) >= 6

====
